---- MODULE Spec2Model ----
(***************************************************************************)
(* The Auth Session Manager of the-one-tab (src/lib/services/auth.ts), the *)
(* credential exchange it drives (oauth.ts) and the part of the persistent *)
(* store it touches (storage.ts: getSettings / saveSettings).              *)
(*                                                                         *)
(* One JavaScript context is modelled.  Its module-level variables are the *)
(* model's variables; every async function is a frame on the call stack of *)
(* a task, and every await of real I/O is a point where a frame waits.  A  *)
(* frame whose pc is not a wait pc is a continuation the event loop runs   *)
(* before any other I/O completion or timer (run to completion).           *)
(***************************************************************************)
EXTENDS Integers, Sequences, FiniteSets, TLC

(* ------------------------------------------------------------------ *)
(* Bounds of the model                                                 *)
(* ------------------------------------------------------------------ *)
MaxRetriesBound == 1      \* maxRetries arguments tried: 0..MaxRetriesBound
MaxChanges == 2            \* storage change events waiting for the listener at one moment
MaxTimers == 1            \* pending 200 ms flag-reset timers at one moment

(* ------------------------------------------------------------------ *)
(* Values                                                              *)
(* ------------------------------------------------------------------ *)
Absent == "absent"            \* a key that is not in an object / the store
Undefined == "undefined"      \* a key explicitly set to undefined
Tokens == {"T1", "T2"}
Logins == {"alice", "bob"}
ListenerIds == {"L1", "L2"}
Tasks == {"t1", "t2", "t3"}
OpResults == {"R1", "R2"}
DEFAULT_MAX_RETRIES == 1

Falsy(x) == x \in {Absent, Undefined, ""}

NullUser == [null |-> TRUE, login |-> ""]
Profile(l) == [null |-> FALSE, login |-> l]

\* GET /user answers with the account the token was issued to.
AccountOf(tok) == IF tok = "T1" THEN "alice" ELSE "bob"

(* An error is its identity and its message; a message is the sequence of *)
(* its segments, so that String.includes(marker) is membership of the     *)
(* marker among the segments.                                             *)
NoError == [id |-> "none", msg |-> <<>>]
Includes(msg, marker) == \E i \in 1..Len(msg) : msg[i] = marker

AuthRequiredError ==
  [id |-> "AuthRequired",
   msg |-> <<"Ban can dang nhap voi GitHub de thuc hien thao tac nay. Vui long mo Options page va dang nhap.">>]
ClientIdMissingError ==
  [id |-> "ClientIdMissing",
   msg |-> <<"Vui long nhap GitHub OAuth App Client ID trong Settings truoc">>]
ClientSecretMissingError ==
  [id |-> "ClientSecretMissing",
   msg |-> <<"Vui long nhap GitHub OAuth App Client Secret trong Settings truoc">>]
NoTokenAfterLoginError ==
  [id |-> "NoTokenAfterLogin", msg |-> <<"Khong the lay token sau khi dang nhap">>]
RetriesExceededError ==
  [id |-> "RetriesExceeded", msg |-> <<"Da vuot qua so lan thu lai">>]
ComposedError(errorMsg) ==
  [id |-> "Composed",
   msg |-> <<"Token da ", "het han", " va khong the tu dong dang nhap lai.",
             "Vui long mo Options page va dang nhap lai.", "Loi goc: ">> \o errorMsg]

(* Failures of the credential exchange, one per reject(...) of           *)
(* authenticateWithGitHub.                                                *)
FlowLastError == [id |-> "FlowLastError", msg |-> <<"The user did not approve access.">>]
FlowCancelled == [id |-> "FlowCancelled", msg |-> <<"OAuth flow was cancelled">>]
FlowAccessDenied ==
  [id |-> "FlowAccessDenied",
   msg |-> <<"Ban da tu choi cap quyen. Vui long bam Authorize tren trang GitHub de dang nhap.">>]
FlowOtherError == [id |-> "FlowOtherError", msg |-> <<"error_description">>]
FlowNoCode == [id |-> "FlowNoCode", msg |-> <<"No authorization code received">>]
VerifierMissing == [id |-> "VerifierMissing", msg |-> <<"Code verifier not found">>]
TokenExchangeFailed == [id |-> "TokenExchangeFailed", msg |-> <<"Token exchange failed: ", "errorText">>]
TokenErrorBody == [id |-> "TokenErrorBody", msg |-> <<"Token error: ", "bad_verification_code">>]
NoAccessToken == [id |-> "NoAccessToken", msg |-> <<"No access token received">>]
TokenFetchThrew == [id |-> "TokenFetchThrew", msg |-> <<"Failed to fetch">>]

(* Failures of getUserInfo. *)
UserInfo401 ==
  [id |-> "UserInfo401",
   msg |-> <<"Token khong hop le hoac da ", "het han", " (", "401", "). ", "Bad credentials">>]
UserInfo403 ==
  [id |-> "UserInfo403", msg |-> <<"Token khong co quyen truy cap (403). ", "Forbidden">>]
UserInfoHttp ==
  [id |-> "UserInfoHttp", msg |-> <<"Failed to get user info (HTTP 500): ", "Server Error">>]
UserInfoThrew == [id |-> "UserInfoThrew", msg |-> <<"Failed to fetch">>]

(* Errors the operation handed to withRetryOn401 may fail with: one per  *)
(* marker of the 401 pattern, and two that carry none.                    *)
Op401 == [id |-> "Op401", msg |-> <<"HTTP ", "401", " from the remote">>]
OpExpired == [id |-> "OpExpired", msg |-> <<"Token da ", "het han">>]
OpBadCredentials == [id |-> "OpBadCredentials", msg |-> <<"Bad credentials">>]
OpUnauthorized == [id |-> "OpUnauthorized", msg |-> <<"Unauthorized">>]
Op500 == [id |-> "Op500", msg |-> <<"HTTP 500 from the remote">>]
OpNotFound == [id |-> "OpNotFound", msg |-> <<"Gist khong ton tai">>]
OpErrors == {Op401, OpExpired, OpBadCredentials, OpUnauthorized, Op500, OpNotFound}

(* ------------------------------------------------------------------ *)
(* State                                                               *)
(* ------------------------------------------------------------------ *)
VARIABLES
  doc,                 \* chrome.storage.local["tabManagerData"]
  verifierSlot,        \* chrome.storage.local["oauthCodeVerifier"]
  isSignedIn, login, userInfo, token,   \* auth.ts:7-10
  isUpdatingToken,     \* auth.ts:13
  timers,              \* pending setTimeout(() => isUpdatingToken = false, 200)
  authInitialized,     \* auth.ts:295
  restorePromise,      \* auth.ts:296: the task running the shared attempt, or "null"
  authStateListeners,  \* auth.ts:17
  heard,               \* per subscribed listener: the state it was last invoked with
  stack,               \* per task: the frames of its async call chain
  ret,                 \* per task: the value a returning frame hands to its caller
  log,                 \* per task: what the current top-level call has done so far
  before,              \* per task: the auth state and the store when that call began
  listening,           \* auth.ts:332: the chrome.storage.onChanged listener is installed
  changes,             \* the storage change events not yet delivered to that listener
  gists,               \* the remote: per gist id, whether it exists and its files in API order
  clock,               \* Date.now()
  pageSettings         \* App.svelte:24: the settings object the options page holds

storeVars == <<doc, verifierSlot>>
memVars == <<isSignedIn, login, userInfo, token>>
listenerVars == <<authStateListeners, heard>>
restoreVars == <<authInitialized, restorePromise>>
workerVars == <<listening, changes>>
vars == <<doc, verifierSlot, isSignedIn, login, userInfo, token, isUpdatingToken,
          timers, authInitialized, restorePromise, authStateListeners, heard, stack, ret, log, before,
          listening, changes, gists, clock, pageSettings>>

(* ------------------------------------------------------------------ *)
(* The persistent store (storage.ts)                                   *)
(* ------------------------------------------------------------------ *)
\* groups.ts:3-13; the description, which is undefined, is not kept by the store
createDefaultGroup ==
  [id |-> "default", name |-> "Default", tabs |-> <<>>, createdAt |-> clock, updatedAt |-> clock]

DefaultSettings ==
  [closeAndSave |-> FALSE, oauthToken |-> Absent, gistId |-> Absent,
   githubClientId |-> Absent, githubClientSecret |-> Absent]

NoDoc == [present |-> FALSE, groups |-> <<>>, settings |-> DefaultSettings]

(* getStorageData: the stored document, or a synthesized default one.  *)
getStorageData ==
  IF doc.present THEN doc
  ELSE [present |-> TRUE, groups |-> <<createDefaultGroup>>, settings |-> DefaultSettings]

getSettings == getStorageData.settings

(* { ...a, ...b }: a key of b, explicit undefined included, overrides a. *)
Spread(a, b) ==
  [closeAndSave |-> b.closeAndSave,
   oauthToken |-> IF b.oauthToken = Absent THEN a.oauthToken ELSE b.oauthToken,
   gistId |-> IF b.gistId = Absent THEN a.gistId ELSE b.gistId,
   githubClientId |-> IF b.githubClientId = Absent THEN a.githubClientId ELSE b.githubClientId,
   githubClientSecret |->
     IF b.githubClientSecret = Absent THEN a.githubClientSecret ELSE b.githubClientSecret]

(* What chrome.storage keeps of a value: undefined members are dropped. *)
Stored(v) == IF v = Undefined THEN Absent ELSE v
StoredSettings(s) ==
  [closeAndSave |-> s.closeAndSave,
   oauthToken |-> Stored(s.oauthToken),
   gistId |-> Stored(s.gistId),
   githubClientId |-> Stored(s.githubClientId),
   githubClientSecret |-> Stored(s.githubClientSecret)]

(* saveStorageData(data) *)
saveStorageData(data) ==
  [present |-> TRUE, groups |-> data.groups, settings |-> StoredSettings(data.settings)]

(* ------------------------------------------------------------------ *)
(* Frames, tasks                                                       *)
(* ------------------------------------------------------------------ *)
NoLocals == [none |-> TRUE]
Frame(fn, pc, loc) == [fn |-> fn, pc |-> pc, loc |-> loc]
NoGroup == [id |-> "", name |-> "", tabs |-> <<>>, createdAt |-> 0, updatedAt |-> 0]
NoRet == [data |-> NoDoc, kind |-> "none", val |-> "", err |-> NoError, group |-> NoGroup]
Ok(v) == [data |-> NoDoc, kind |-> "ok", val |-> v, err |-> NoError, group |-> NoGroup]
Err(e) == [data |-> NoDoc, kind |-> "err", val |-> "", err |-> e, group |-> NoGroup]
\* a call that resolves with a StorageData object
OkData(d) == [data |-> d, kind |-> "ok", val |-> "data", err |-> NoError, group |-> NoGroup]
\* a call that resolves with a Group object
OkGroup(g) == [data |-> NoDoc, kind |-> "ok", val |-> "group", err |-> NoError, group |-> g]

Idle(t) == stack[t] = <<>>
Top(t) == stack[t][Len(stack[t])]
Below(t) == SubSeq(stack[t], 1, Len(stack[t]) - 1)
At(t, fn, pc) == ~Idle(t) /\ Top(t).fn = fn /\ Top(t).pc = pc

(* The pcs at which a frame waits for I/O or for a timer. *)
WaitPcs == {"gs_wait", "read_wait", "write_wait", "sleep_wait", "op_wait", "test_wait",
            "user_wait", "set_wait", "flow_wait", "get_wait", "token_wait", "join_wait",
            "data_wait", "patch_wait", "post_wait", "verify_wait"}
(* A task is ready when a continuation of it can run without waiting: a   *)
(* frame past its await, or the caller of a top-level call that settled.  *)
Settled(t) == Idle(t) /\ ret[t].kind # "none"
IsReady(t) == Settled(t) \/ (~Idle(t) /\ Top(t).pc \notin WaitPcs)
NoneReady == \A u \in Tasks : ~IsReady(u)

Snapshot(a, d) == [doc |-> d, auth |-> a]
Event(ev, tok, res) == [tok |-> tok, ev |-> ev, res |-> res]

AuthStateNow == [login |-> login, isSignedIn |-> isSignedIn, userInfo |-> userInfo, token |-> token]
SignedOutState == [login |-> "", isSignedIn |-> FALSE, userInfo |-> NullUser, token |-> Undefined]

NoSnapshot == Snapshot(SignedOutState, NoDoc)

(* (mutant) as Notified, but listeners that have unsubscribed are invoked too *)
Notified_everyone(st) == [l \in ListenerIds |-> <<st>>]

(* notifyListeners with the state st *)
Notified(st) == [l \in ListenerIds |-> IF l \in authStateListeners THEN <<st>> ELSE heard[l]]

(* ------------------------------------------------------------------ *)
(* Initial state: a process that has just loaded the module, over a    *)
(* store left by earlier runs.                                         *)
(* ------------------------------------------------------------------ *)
InitialSettings ==
  {[closeAndSave |-> FALSE, oauthToken |-> tk, gistId |-> Absent,
    githubClientId |-> ci, githubClientSecret |-> cs] :
     tk \in Tokens \cup {Absent}, ci \in {Absent, "cid"}, cs \in {Absent, "secret"}}

\* App.svelte:24-30: the settings of the page before loadSettings has run
UnloadedSettings ==
  [closeAndSave |-> FALSE, oauthToken |-> Undefined, gistId |-> Undefined,
   githubClientId |-> Undefined, githubClientSecret |-> Undefined]

InitProcess ==
  /\ pageSettings = UnloadedSettings
  /\ verifierSlot = Absent
  /\ isSignedIn = FALSE
  /\ login = ""
  /\ userInfo = NullUser
  /\ token = Undefined
  /\ isUpdatingToken = FALSE
  /\ timers = 0
  /\ authInitialized = FALSE
  /\ restorePromise = "null"
  /\ authStateListeners = {}
  /\ heard = [l \in ListenerIds |-> <<>>]
  /\ stack = [t \in Tasks |-> <<>>]
  /\ ret = [t \in Tasks |-> NoRet]
  /\ log = [t \in Tasks |-> <<>>]
  /\ before = [t \in Tasks |-> NoSnapshot]
  /\ listening = FALSE
  /\ changes = <<>>

InitLocal ==
  /\ clock = 0
  /\ doc \in {NoDoc} \cup
       {[present |-> TRUE, groups |-> <<createDefaultGroup>>, settings |-> s] :
          s \in InitialSettings}
  /\ InitProcess

GistIds == {"g1", "g2"}
NoGist == [exists |-> FALSE, files |-> <<>>]

Init ==
  /\ InitLocal
  /\ gists = [id \in GistIds |-> NoGist]

(* ------------------------------------------------------------------ *)
(* Stack moves                                                         *)
(* ------------------------------------------------------------------ *)
Goto(t, frame) == stack' = [stack EXCEPT ![t] = Below(t) \o <<frame>>]
Call(t, caller, callee) == stack' = [stack EXCEPT ![t] = Below(t) \o <<caller, callee>>]
Return(t, r) ==
  /\ stack' = [stack EXCEPT ![t] = Below(t)]
  /\ ret' = [ret EXCEPT ![t] = r]
LoggedAll(t, es) == log' = [log EXCEPT ![t] = log[t] \o es]
Logged(t, e) == LoggedAll(t, <<e>>)
AtPc(t, pc) == [Top(t) EXCEPT !.pc = pc]

(* ------------------------------------------------------------------ *)
(* saveSettings (storage.ts:145-149)                                   *)
(* ------------------------------------------------------------------ *)
SaveSettingsFrame(settings) == Frame("saveSettings", "start", [settings |-> settings])

\* const data = await getStorageData(): the read is issued
saveSettings_start(t) ==
  /\ At(t, "saveSettings", "start")
  /\ Goto(t, AtPc(t, "read_wait"))
  /\ UNCHANGED <<clock, pageSettings, gists, workerVars, restoreVars, storeVars, memVars, isUpdatingToken, timers, listenerVars, ret, log, before>>

\* the read completes; data.settings = {...data.settings, ...settings}; the write is issued
saveSettings_read(t) ==
  /\ At(t, "saveSettings", "read_wait")
  /\ NoneReady
  /\ LET data == getStorageData
         merged == [data EXCEPT !.settings = Spread(data.settings, Top(t).loc.settings)]
     IN Goto(t, Frame("saveSettings", "write_wait", [data |-> merged]))
  /\ UNCHANGED <<clock, pageSettings, gists, workerVars, restoreVars, storeVars, memVars, isUpdatingToken, timers, listenerVars, ret, log, before>>

\* newValue?.settings?.oauthToken of a storage change
TokenIn(v) ==
  IF v.present /\ v.settings.oauthToken # Absent THEN v.settings.oauthToken ELSE Undefined

\* chrome.storage.onChanged: a write that changes the stored value queues an event for the
\* listener of this process; by names the writer
Changed(by, oldValue, newValue) ==
  /\ listening => Len(changes) < MaxChanges
  /\ changes' = IF listening /\ newValue # oldValue
                  THEN Append(changes, [by |-> by,
                                        oldToken |-> TokenIn(oldValue), newToken |-> TokenIn(newValue)])
                  ELSE changes

\* the write lands in the store and saveSettings resolves
saveSettings_write(t) ==
  /\ At(t, "saveSettings", "write_wait")
  /\ NoneReady
  /\ doc' = saveStorageData(Top(t).loc.data)
  /\ Changed(stack[t][1].fn, doc, doc')
  /\ Return(t, Ok("void"))
  /\ UNCHANGED <<clock, pageSettings, gists, listening, restoreVars, verifierSlot, memVars, isUpdatingToken, timers, listenerVars, log, before>>

(* ------------------------------------------------------------------ *)
(* signOut (auth.ts:155-178)                                           *)
(* ------------------------------------------------------------------ *)
SignOutFrame == Frame("signOut", "start", NoLocals)

\* isUpdatingToken = true; const settings = await getSettings()
signOut_start(t) ==
  /\ At(t, "signOut", "start")
  /\ isUpdatingToken' = TRUE
  /\ Goto(t, AtPc(t, "gs_wait"))
  /\ Logged(t, Event("signOut", "", ""))
  /\ UNCHANGED <<clock, pageSettings, gists, workerVars, restoreVars, storeVars, memVars, timers, listenerVars, ret, before>>

\* (mutant) as signOut_settings, but the settings are saved with their token
signOut_settings_keepsToken(t) ==
  /\ At(t, "signOut", "gs_wait")
  /\ NoneReady
  /\ Call(t, AtPc(t, "after_save"), SaveSettingsFrame(getSettings))
  /\ UNCHANGED <<clock, pageSettings, gists, workerVars, restoreVars, storeVars, memVars, isUpdatingToken, timers, listenerVars, ret, log, before>>

\* await saveSettings({...settings, oauthToken: undefined})
signOut_settings(t) ==
  /\ At(t, "signOut", "gs_wait")
  /\ NoneReady
  /\ Call(t, AtPc(t, "after_save"),
          SaveSettingsFrame([getSettings EXCEPT !.oauthToken = Undefined]))
  /\ UNCHANGED <<clock, pageSettings, gists, workerVars, restoreVars, storeVars, memVars, isUpdatingToken, timers, listenerVars, ret, log, before>>

\* await new Promise((resolve) => setTimeout(resolve, 50))
signOut_saved(t) ==
  /\ At(t, "signOut", "after_save")
  /\ Goto(t, AtPc(t, "sleep_wait"))
  /\ ret' = [ret EXCEPT ![t] = NoRet]
  /\ UNCHANGED <<clock, pageSettings, gists, workerVars, restoreVars, storeVars, memVars, isUpdatingToken, timers, listenerVars, log, before>>

\* finally { setTimeout(reset, 200) }; markUserAsSignedOut()
signOut_finish(t) ==
  /\ At(t, "signOut", "sleep_wait")
  /\ NoneReady
  /\ timers < MaxTimers
  /\ timers' = timers + 1
  /\ token' = Undefined
  /\ isSignedIn' = FALSE
  /\ login' = ""
  /\ userInfo' = NullUser
  /\ heard' = Notified(SignedOutState)
  /\ Logged(t, Event("notify", Undefined, ""))
  /\ Return(t, Ok("void"))
  /\ UNCHANGED <<clock, pageSettings, gists, workerVars, restoreVars, storeVars, isUpdatingToken, authStateListeners, before>>

\* the 200 ms timer of markUserAsSignedIn / signOut fires
TimerFire ==
  /\ timers > 0
  /\ NoneReady
  /\ timers' = timers - 1
  /\ isUpdatingToken' = FALSE
  /\ UNCHANGED <<clock, pageSettings, gists, workerVars, restoreVars, storeVars, memVars, listenerVars, stack, ret, log, before>>

(* ------------------------------------------------------------------ *)
(* markUserAsSignedIn (auth.ts:48-83)                                  *)
(* ------------------------------------------------------------------ *)
MarkSignedInFrame(newToken, newUserInfo, refreshUI) ==
  Frame("markUserAsSignedIn", "start",
        [newToken |-> newToken, newUserInfo |-> newUserInfo, refreshUI |-> refreshUI])

\* (mutant) as markUserAsSignedIn_start, but isSignedIn is left for after the await
markUserAsSignedIn_start_tokenFirst(t) ==
  /\ At(t, "markUserAsSignedIn", "start")
  /\ isUpdatingToken' = TRUE
  /\ token' = Top(t).loc.newToken
  /\ login' = Top(t).loc.newUserInfo.login
  /\ userInfo' = Top(t).loc.newUserInfo
  /\ Goto(t, AtPc(t, "gs_wait"))
  /\ UNCHANGED <<clock, pageSettings, gists, workerVars, restoreVars, storeVars, isSignedIn, timers, listenerVars, ret, log, before>>

\* isUpdatingToken = true; the in-memory state is set; await getSettings()
markUserAsSignedIn_start(t) ==
  /\ At(t, "markUserAsSignedIn", "start")
  /\ isUpdatingToken' = TRUE
  /\ token' = Top(t).loc.newToken
  /\ isSignedIn' = TRUE
  /\ login' = Top(t).loc.newUserInfo.login
  /\ userInfo' = Top(t).loc.newUserInfo
  /\ Goto(t, AtPc(t, "gs_wait"))
  /\ UNCHANGED <<clock, pageSettings, gists, workerVars, restoreVars, storeVars, timers, listenerVars, ret, log, before>>

\* finally { setTimeout(reset, 200) }; if (refreshUI) notifyListeners()
markUserAsSignedIn_end(t) ==
  /\ timers < MaxTimers
  /\ timers' = timers + 1
  /\ IF Top(t).loc.refreshUI
       THEN /\ heard' = Notified(AuthStateNow)
            /\ Logged(t, Event("notify", token, login))
       ELSE UNCHANGED <<heard, log>>
  /\ Return(t, Ok("void"))

\* (mutant) as markUserAsSignedIn_settings, but the token is never saved
markUserAsSignedIn_settings_noSave(t) ==
  /\ At(t, "markUserAsSignedIn", "gs_wait")
  /\ NoneReady
  /\ markUserAsSignedIn_end(t)
  /\ UNCHANGED <<clock, pageSettings, gists, workerVars, restoreVars, storeVars, memVars, isUpdatingToken, authStateListeners, before>>

\* if (settings.oauthToken !== newToken) await saveSettings({...settings, oauthToken: newToken})
markUserAsSignedIn_settings(t) ==
  /\ At(t, "markUserAsSignedIn", "gs_wait")
  /\ NoneReady
  /\ IF getSettings.oauthToken # Top(t).loc.newToken
       THEN /\ Call(t, AtPc(t, "after_save"),
                    SaveSettingsFrame([getSettings EXCEPT !.oauthToken = Top(t).loc.newToken]))
            /\ UNCHANGED <<timers, heard, ret, log>>
       ELSE markUserAsSignedIn_end(t)
  /\ UNCHANGED <<clock, pageSettings, gists, workerVars, restoreVars, storeVars, memVars, isUpdatingToken, authStateListeners, before>>

\* await new Promise((resolve) => setTimeout(resolve, 50))
markUserAsSignedIn_saved(t) ==
  /\ At(t, "markUserAsSignedIn", "after_save")
  /\ Goto(t, AtPc(t, "sleep_wait"))
  /\ ret' = [ret EXCEPT ![t] = NoRet]
  /\ UNCHANGED <<clock, pageSettings, gists, workerVars, restoreVars, storeVars, memVars, isUpdatingToken, timers, listenerVars, log, before>>

markUserAsSignedIn_finish(t) ==
  /\ At(t, "markUserAsSignedIn", "sleep_wait")
  /\ NoneReady
  /\ markUserAsSignedIn_end(t)
  /\ UNCHANGED <<clock, pageSettings, gists, workerVars, restoreVars, storeVars, memVars, isUpdatingToken, authStateListeners, before>>

(* ------------------------------------------------------------------ *)
(* authenticateWithGitHub (oauth.ts)                                   *)
(* ------------------------------------------------------------------ *)
ExchangeFrame == Frame("authenticateWithGitHub", "start", NoLocals)
Verifier(t) == IF t = "t1" THEN "v1" ELSE "v2"

FlowFailures == {FlowLastError, FlowCancelled, FlowAccessDenied, FlowOtherError, FlowNoCode}
TokenFailures == {TokenExchangeFailed, TokenErrorBody, NoAccessToken, TokenFetchThrew}

\* generateCodeVerifier(); chrome.storage.local.set({oauthCodeVerifier}) is issued
authenticateWithGitHub_start(t) ==
  /\ At(t, "authenticateWithGitHub", "start")
  /\ Goto(t, Frame("authenticateWithGitHub", "set_wait", [codeVerifier |-> Verifier(t)]))
  /\ Logged(t, Event("exchange", "", ""))
  /\ UNCHANGED <<clock, pageSettings, gists, workerVars, restoreVars, storeVars, memVars, isUpdatingToken, timers, listenerVars, ret, before>>

\* the verifier is stored; chrome.identity.launchWebAuthFlow(...) is started
authenticateWithGitHub_stored(t) ==
  /\ At(t, "authenticateWithGitHub", "set_wait")
  /\ NoneReady
  /\ verifierSlot' = Top(t).loc.codeVerifier
  /\ Goto(t, AtPc(t, "flow_wait"))
  /\ UNCHANGED <<clock, pageSettings, gists, workerVars, restoreVars, doc, memVars, isUpdatingToken, timers, listenerVars, ret, log, before>>

\* the callback of launchWebAuthFlow: lastError, no URL, error=..., no code
authenticateWithGitHub_callbackFails(t, e) ==
  /\ At(t, "authenticateWithGitHub", "flow_wait")
  /\ NoneReady
  /\ Return(t, Err(e))
  /\ Logged(t, Event("exchangeFailed", "", e.id))
  /\ UNCHANGED <<clock, pageSettings, gists, workerVars, restoreVars, storeVars, memVars, isUpdatingToken, timers, listenerVars, before>>

\* the callback carries a code: chrome.storage.local.get(["oauthCodeVerifier"]) is issued
authenticateWithGitHub_callbackCode(t) ==
  /\ At(t, "authenticateWithGitHub", "flow_wait")
  /\ NoneReady
  /\ Goto(t, AtPc(t, "get_wait"))
  /\ UNCHANGED <<clock, pageSettings, gists, workerVars, restoreVars, storeVars, memVars, isUpdatingToken, timers, listenerVars, ret, log, before>>

\* the stored verifier is read; without one the flow rejects, else the code is exchanged
authenticateWithGitHub_verifier(t) ==
  /\ At(t, "authenticateWithGitHub", "get_wait")
  /\ NoneReady
  /\ IF Falsy(verifierSlot)
       THEN /\ Return(t, Err(VerifierMissing))
            /\ Logged(t, Event("exchangeFailed", "", VerifierMissing.id))
       ELSE /\ Goto(t, Frame("authenticateWithGitHub", "token_wait",
                             [codeVerifier |-> Top(t).loc.codeVerifier,
                              verifier |-> verifierSlot]))
            /\ UNCHANGED <<ret, log>>
  /\ UNCHANGED <<clock, pageSettings, gists, workerVars, restoreVars, storeVars, memVars, isUpdatingToken, timers, listenerVars, before>>

\* the token endpoint answers non-2xx, with an error body, without a token, or fetch throws
authenticateWithGitHub_tokenFails(t, e) ==
  /\ At(t, "authenticateWithGitHub", "token_wait")
  /\ NoneReady
  /\ Return(t, Err(e))
  /\ Logged(t, Event("exchangeFailed", "", e.id))
  /\ UNCHANGED <<clock, pageSettings, gists, workerVars, restoreVars, storeVars, memVars, isUpdatingToken, timers, listenerVars, before>>

\* the token endpoint answers with access_token; the stored verifier is removed
authenticateWithGitHub_token(t, accessToken) ==
  /\ At(t, "authenticateWithGitHub", "token_wait")
  /\ NoneReady
  /\ verifierSlot' = Absent
  /\ Return(t, Ok(accessToken))
  /\ Logged(t, Event("exchangeOk", accessToken, ""))
  /\ UNCHANGED <<clock, pageSettings, gists, workerVars, restoreVars, doc, memVars, isUpdatingToken, timers, listenerVars, before>>

\* another surface of the extension runs its own exchange over the same slot
OtherSurfaceExchange(v) ==
  /\ NoneReady
  /\ \E t \in Tasks : ~Idle(t) /\ Top(t).fn = "authenticateWithGitHub"
  /\ verifierSlot # v
  /\ verifierSlot' = v
  /\ UNCHANGED <<clock, pageSettings, gists, workerVars, restoreVars, doc, memVars, isUpdatingToken, timers, listenerVars, stack, ret, log, before>>

(* ------------------------------------------------------------------ *)
(* signIn (auth.ts:123-153)                                            *)
(* ------------------------------------------------------------------ *)
SignInFrame == Frame("signIn", "start", NoLocals)
UserInfoFailures == {UserInfo401, UserInfo403, UserInfoHttp, UserInfoThrew}

\* const settings = await getSettings()
signIn_start(t) ==
  /\ At(t, "signIn", "start")
  /\ Goto(t, AtPc(t, "gs_wait"))
  /\ Logged(t, Event("signIn", "", ""))
  /\ UNCHANGED <<clock, pageSettings, gists, workerVars, restoreVars, storeVars, memVars, isUpdatingToken, timers, listenerVars, ret, before>>

\* (mutant) as signIn_settings, but only the client id is required
signIn_settings_noSecretCheck(t) ==
  /\ At(t, "signIn", "gs_wait")
  /\ NoneReady
  /\ IF Falsy(getSettings.githubClientId)
       THEN /\ Return(t, Err(ClientIdMissingError))
            /\ Logged(t, Event("signInRejected", "", ClientIdMissingError.id))
       ELSE /\ Call(t, AtPc(t, "after_exchange"), ExchangeFrame)
            /\ UNCHANGED <<ret, log>>
  /\ UNCHANGED <<clock, pageSettings, gists, workerVars, restoreVars, storeVars, memVars, isUpdatingToken, timers, listenerVars, before>>

\* the two configuration checks, then authenticateWithGitHub(clientId, clientSecret)
signIn_settings(t) ==
  /\ At(t, "signIn", "gs_wait")
  /\ NoneReady
  /\ IF Falsy(getSettings.githubClientId)
       THEN /\ Return(t, Err(ClientIdMissingError))
            /\ Logged(t, Event("signInRejected", "", ClientIdMissingError.id))
       ELSE IF Falsy(getSettings.githubClientSecret)
         THEN /\ Return(t, Err(ClientSecretMissingError))
              /\ Logged(t, Event("signInRejected", "", ClientSecretMissingError.id))
         ELSE /\ Call(t, AtPc(t, "after_exchange"), ExchangeFrame)
              /\ UNCHANGED <<ret, log>>
  /\ UNCHANGED <<clock, pageSettings, gists, workerVars, restoreVars, storeVars, memVars, isUpdatingToken, timers, listenerVars, before>>

\* the exchange settled: rethrow its error, or getUserInfo(accessToken)
signIn_exchanged(t) ==
  /\ At(t, "signIn", "after_exchange")
  /\ IF ret[t].kind = "err"
       THEN /\ Return(t, ret[t])
            /\ Logged(t, Event("signInRejected", "", ret[t].err.id))
       ELSE /\ Goto(t, Frame("signIn", "user_wait", [accessToken |-> ret[t].val]))
            /\ ret' = [ret EXCEPT ![t] = NoRet]
            /\ UNCHANGED log
  /\ UNCHANGED <<clock, pageSettings, gists, workerVars, restoreVars, storeVars, memVars, isUpdatingToken, timers, listenerVars, before>>

\* (mutant) as signIn_userFails, but the failure also marks the user as signed out
signIn_userFails_signsOut(t, e) ==
  /\ At(t, "signIn", "user_wait")
  /\ NoneReady
  /\ token' = Undefined
  /\ isSignedIn' = FALSE
  /\ login' = ""
  /\ userInfo' = NullUser
  /\ heard' = Notified(SignedOutState)
  /\ Return(t, Err(e))
  /\ LoggedAll(t, <<Event("getUserInfoFailed", Top(t).loc.accessToken, e.id),
                    Event("notify", Undefined, ""),
                    Event("signInRejected", "", e.id)>>)
  /\ UNCHANGED <<clock, pageSettings, gists, workerVars, restoreVars, storeVars, isUpdatingToken, timers, authStateListeners, before>>

\* getUserInfo fails: the error is rethrown
signIn_userFails(t, e) ==
  /\ At(t, "signIn", "user_wait")
  /\ NoneReady
  /\ Return(t, Err(e))
  /\ LoggedAll(t, <<Event("getUserInfoFailed", Top(t).loc.accessToken, e.id),
                    Event("signInRejected", "", e.id)>>)
  /\ UNCHANGED <<clock, pageSettings, gists, workerVars, restoreVars, storeVars, memVars, isUpdatingToken, timers, listenerVars, before>>

\* getUserInfo returns the profile: await markUserAsSignedIn(accessToken, user, true)
signIn_user(t, l) ==
  /\ At(t, "signIn", "user_wait")
  /\ NoneReady
  /\ l = AccountOf(Top(t).loc.accessToken)
  /\ Call(t, AtPc(t, "after_mark"), MarkSignedInFrame(Top(t).loc.accessToken, Profile(l), TRUE))
  /\ Logged(t, Event("getUserInfoOk", Top(t).loc.accessToken, l))
  /\ UNCHANGED <<clock, pageSettings, gists, workerVars, restoreVars, storeVars, memVars, isUpdatingToken, timers, listenerVars, ret, before>>

\* return true
signIn_marked(t) ==
  /\ At(t, "signIn", "after_mark")
  /\ Return(t, Ok("true"))
  /\ Logged(t, Event("signInResolved", "", ""))
  /\ UNCHANGED <<clock, pageSettings, gists, workerVars, restoreVars, storeVars, memVars, isUpdatingToken, timers, listenerVars, before>>

(* ------------------------------------------------------------------ *)
(* ensureAuthenticated (auth.ts:101-121)                               *)
(* ------------------------------------------------------------------ *)
EnsureFrame == Frame("ensureAuthenticated", "start", NoLocals)
TestOutcomes == {"valid", "invalid", "throws"}

\* (mutant) as ensureAuthenticated_start, but a signed-out caller is sent through signIn
ensureAuthenticated_start_signsIn(t) ==
  /\ At(t, "ensureAuthenticated", "start")
  /\ IF isSignedIn /\ ~Falsy(token)
       THEN /\ Goto(t, AtPc(t, "test_wait"))
            /\ Logged(t, Event("testGitHubToken", token, ""))
       ELSE /\ Call(t, AtPc(t, "after_signOut"), SignInFrame)
            /\ UNCHANGED log
  /\ UNCHANGED <<clock, pageSettings, gists, workerVars, restoreVars, storeVars, memVars, isUpdatingToken, timers, listenerVars, ret, before>>

\* if (isSignedIn && token) testGitHubToken(token) else throw
ensureAuthenticated_start(t) ==
  /\ At(t, "ensureAuthenticated", "start")
  /\ IF isSignedIn /\ ~Falsy(token)
       THEN /\ Goto(t, AtPc(t, "test_wait"))
            /\ Logged(t, Event("testGitHubToken", token, ""))
            /\ UNCHANGED ret
       ELSE /\ Return(t, Err(AuthRequiredError))
            /\ Logged(t, Event("ensureAuthenticated", "", "not signed in"))
  /\ UNCHANGED <<clock, pageSettings, gists, workerVars, restoreVars, storeVars, memVars, isUpdatingToken, timers, listenerVars, before>>

\* (mutant) as ensureAuthenticated_tested, but only a thrown validation signs out
ensureAuthenticated_tested_lenient(t, outcome) ==
  /\ At(t, "ensureAuthenticated", "test_wait")
  /\ NoneReady
  /\ IF outcome # "throws"
       THEN Return(t, Ok("void"))
       ELSE /\ Call(t, AtPc(t, "after_signOut"), SignOutFrame)
            /\ UNCHANGED ret
  /\ Logged(t, Event("testResult", token, outcome))
  /\ UNCHANGED <<clock, pageSettings, gists, workerVars, restoreVars, storeVars, memVars, isUpdatingToken, timers, listenerVars, before>>

\* testGitHubToken settles: valid returns, invalid or thrown signs out
ensureAuthenticated_tested(t, outcome) ==
  /\ At(t, "ensureAuthenticated", "test_wait")
  /\ NoneReady
  /\ IF outcome = "valid"
       THEN Return(t, Ok("void"))
       ELSE /\ Call(t, AtPc(t, "after_signOut"), SignOutFrame)
            /\ UNCHANGED ret
  /\ Logged(t, Event("testResult", token, outcome))
  /\ UNCHANGED <<clock, pageSettings, gists, workerVars, restoreVars, storeVars, memVars, isUpdatingToken, timers, listenerVars, before>>

\* throw new Error("Ban can dang nhap ...")
ensureAuthenticated_signedOut(t) ==
  /\ At(t, "ensureAuthenticated", "after_signOut")
  /\ Return(t, Err(AuthRequiredError))
  /\ UNCHANGED <<clock, pageSettings, gists, workerVars, restoreVars, storeVars, memVars, isUpdatingToken, timers, listenerVars, log, before>>

(* ------------------------------------------------------------------ *)
(* withRetryOn401 (auth.ts:186-250)                                    *)
(* ------------------------------------------------------------------ *)
is401Error(errorMsg) ==
  \/ Includes(errorMsg, "401")
  \/ Includes(errorMsg, "het han")
  \/ Includes(errorMsg, "Bad credentials")
  \/ Includes(errorMsg, "Unauthorized")

RetryFrame(pc, currentToken, retryCount, maxRetries, error) ==
  Frame("withRetryOn401", pc,
        [currentToken |-> currentToken, retryCount |-> retryCount,
         maxRetries |-> maxRetries, error |-> error])
RetryAt(t, pc) == AtPc(t, pc)

\* return await fn(currentToken): the operation is invoked
withRetryOn401_invoke(t, currentToken) ==
  /\ Goto(t, [Top(t) EXCEPT !.pc = "op_wait", !.loc.currentToken = currentToken])
  /\ Logged(t, Event("op", currentToken, ""))

\* (mutant) as withRetryOn401_catch, but an error outside the 401 pattern is rethrown wrapped
withRetryOn401_catch_wraps(t, error) ==
  IF is401Error(error.msg) /\ Top(t).loc.retryCount < Top(t).loc.maxRetries
    THEN /\ Call(t, [Top(t) EXCEPT !.pc = "after_signOut", !.loc.error = error], SignOutFrame)
         /\ ret' = [ret EXCEPT ![t] = NoRet]
    ELSE Return(t, Err(ComposedError(error.msg)))

\* (mutant) as withRetryOn401_catch, but a 401-pattern error met when no retry is left is
\* rethrown wrapped
withRetryOn401_catch_exhaustedWraps(t, error) ==
  IF is401Error(error.msg)
    THEN IF Top(t).loc.retryCount < Top(t).loc.maxRetries
           THEN /\ Call(t, [Top(t) EXCEPT !.pc = "after_signOut", !.loc.error = error], SignOutFrame)
                /\ ret' = [ret EXCEPT ![t] = NoRet]
           ELSE Return(t, Err(ComposedError(error.msg)))
    ELSE Return(t, Err(error))

\* catch (error): sign out and re-authenticate, or rethrow the error as it is
withRetryOn401_catch(t, error) ==
  IF is401Error(error.msg) /\ Top(t).loc.retryCount < Top(t).loc.maxRetries
    THEN /\ Call(t, [Top(t) EXCEPT !.pc = "after_signOut", !.loc.error = error], SignOutFrame)
         /\ ret' = [ret EXCEPT ![t] = NoRet]
    ELSE Return(t, Err(error))

\* (mutant) as withRetryOn401_loop, but the operation is invoked without a token check
withRetryOn401_loop_noEnsure(t) ==
  /\ At(t, "withRetryOn401", "loop")
  /\ IF Top(t).loc.retryCount <= Top(t).loc.maxRetries
       THEN /\ withRetryOn401_invoke(t, Top(t).loc.currentToken)
            /\ UNCHANGED ret
       ELSE /\ Return(t, Err(RetriesExceededError))
            /\ UNCHANGED log
  /\ UNCHANGED <<clock, pageSettings, gists, workerVars, restoreVars, storeVars, memVars, isUpdatingToken, timers, listenerVars, before>>

\* while (retryCount <= maxRetries) { try { if (!currentToken) ensureAuthenticated() ...
withRetryOn401_loop(t) ==
  /\ At(t, "withRetryOn401", "loop")
  /\ IF Top(t).loc.retryCount <= Top(t).loc.maxRetries
       THEN IF Falsy(Top(t).loc.currentToken)
              THEN /\ Call(t, RetryAt(t, "after_ensure"), EnsureFrame)
                   /\ UNCHANGED <<ret, log>>
              ELSE /\ withRetryOn401_invoke(t, Top(t).loc.currentToken)
                   /\ UNCHANGED ret
       ELSE /\ Return(t, Err(RetriesExceededError))
            /\ UNCHANGED log
  /\ UNCHANGED <<clock, pageSettings, gists, workerVars, restoreVars, storeVars, memVars, isUpdatingToken, timers, listenerVars, before>>

\* ensureAuthenticated settled: currentToken = token, or its error is caught
withRetryOn401_ensured(t) ==
  /\ At(t, "withRetryOn401", "after_ensure")
  /\ IF ret[t].kind = "err"
       THEN /\ withRetryOn401_catch(t, ret[t].err)
            /\ UNCHANGED log
       ELSE IF Falsy(token)
         THEN /\ withRetryOn401_catch(t, NoTokenAfterLoginError)
              /\ UNCHANGED log
         ELSE /\ withRetryOn401_invoke(t, token)
              /\ ret' = [ret EXCEPT ![t] = NoRet]
  /\ UNCHANGED <<clock, pageSettings, gists, workerVars, restoreVars, storeVars, memVars, isUpdatingToken, timers, listenerVars, before>>

\* the operation resolves: the wrapper resolves with its result
withRetryOn401_opResolves(t, r) ==
  /\ At(t, "withRetryOn401", "op_wait")
  /\ NoneReady
  /\ Return(t, Ok(r))
  /\ Logged(t, Event("opResolved", Top(t).loc.currentToken, r))
  /\ UNCHANGED <<clock, pageSettings, gists, workerVars, restoreVars, storeVars, memVars, isUpdatingToken, timers, listenerVars, before>>

\* the operation rejects
withRetryOn401_opRejects(t, e) ==
  /\ At(t, "withRetryOn401", "op_wait")
  /\ NoneReady
  /\ withRetryOn401_catch(t, e)
  /\ Logged(t, Event("opRejected", Top(t).loc.currentToken, e.id))
  /\ UNCHANGED <<clock, pageSettings, gists, workerVars, restoreVars, storeVars, memVars, isUpdatingToken, timers, listenerVars, before>>

\* signOut returned: const settings = await getSettings()
withRetryOn401_signedOut(t) ==
  /\ At(t, "withRetryOn401", "after_signOut")
  /\ Goto(t, RetryAt(t, "gs_wait"))
  /\ ret' = [ret EXCEPT ![t] = NoRet]
  /\ UNCHANGED <<clock, pageSettings, gists, workerVars, restoreVars, storeVars, memVars, isUpdatingToken, timers, listenerVars, log, before>>

\* if (settings.githubClientId && settings.githubClientSecret) signIn() else throw composed
withRetryOn401_settings(t) ==
  /\ At(t, "withRetryOn401", "gs_wait")
  /\ NoneReady
  /\ IF ~Falsy(getSettings.githubClientId) /\ ~Falsy(getSettings.githubClientSecret)
       THEN /\ Call(t, RetryAt(t, "after_signIn"), SignInFrame)
            /\ UNCHANGED ret
       ELSE Return(t, Err(ComposedError(Top(t).loc.error.msg)))
  /\ UNCHANGED <<clock, pageSettings, gists, workerVars, restoreVars, storeVars, memVars, isUpdatingToken, timers, listenerVars, log, before>>

\* (mutant) as withRetryOn401_signedIn, but a failed re-authentication is retried all the same
withRetryOn401_signedIn_retriesAnyway(t) ==
  /\ At(t, "withRetryOn401", "after_signIn")
  /\ Goto(t, [Top(t) EXCEPT !.pc = "loop", !.loc.currentToken = Top(t).loc.currentToken,
                            !.loc.retryCount = @ + 1])
  /\ ret' = [ret EXCEPT ![t] = NoRet]
  /\ UNCHANGED <<clock, pageSettings, gists, workerVars, restoreVars, storeVars, memVars, isUpdatingToken, timers, listenerVars, log, before>>

\* (mutant) as withRetryOn401_signedIn, but retryCount is not incremented
withRetryOn401_signedIn_noCount(t) ==
  /\ At(t, "withRetryOn401", "after_signIn")
  /\ IF ret[t].kind = "ok" /\ ret[t].val = "true"
       THEN /\ Goto(t, [Top(t) EXCEPT !.pc = "loop", !.loc.currentToken = token])
            /\ ret' = [ret EXCEPT ![t] = NoRet]
       ELSE Return(t, Err(ComposedError(Top(t).loc.error.msg)))
  /\ UNCHANGED <<clock, pageSettings, gists, workerVars, restoreVars, storeVars, memVars, isUpdatingToken, timers, listenerVars, log, before>>

\* (mutant) as withRetryOn401_signedIn, but the retry keeps the token it started with
withRetryOn401_signedIn_staleToken(t) ==
  /\ At(t, "withRetryOn401", "after_signIn")
  /\ IF ret[t].kind = "ok" /\ ret[t].val = "true"
       THEN /\ Goto(t, [Top(t) EXCEPT !.pc = "loop", !.loc.retryCount = @ + 1])
            /\ ret' = [ret EXCEPT ![t] = NoRet]
       ELSE Return(t, Err(ComposedError(Top(t).loc.error.msg)))
  /\ UNCHANGED <<clock, pageSettings, gists, workerVars, restoreVars, storeVars, memVars, isUpdatingToken, timers, listenerVars, log, before>>

\* signIn settled: currentToken = token; retryCount++; continue -- or throw composed
withRetryOn401_signedIn(t) ==
  /\ At(t, "withRetryOn401", "after_signIn")
  /\ IF ret[t].kind = "ok" /\ ret[t].val = "true"
       THEN /\ Goto(t, [Top(t) EXCEPT !.pc = "loop", !.loc.currentToken = token,
                                      !.loc.retryCount = @ + 1])
            /\ ret' = [ret EXCEPT ![t] = NoRet]
       ELSE Return(t, Err(ComposedError(Top(t).loc.error.msg)))
  /\ UNCHANGED <<clock, pageSettings, gists, workerVars, restoreVars, storeVars, memVars, isUpdatingToken, timers, listenerVars, log, before>>

(* ------------------------------------------------------------------ *)
(* attemptSilentSignin (auth.ts:252-292)                               *)
(* ------------------------------------------------------------------ *)
SilentFrame(refreshUI) ==
  Frame("attemptSilentSignin", "start", [refreshUI |-> refreshUI, storedToken |-> Absent])

\* if (isSignedIn) markUserAsSignedOut(); return
attemptSilentSignin_giveUp(t, seen) ==
  /\ IF isSignedIn
       THEN /\ token' = Undefined
            /\ isSignedIn' = FALSE
            /\ login' = ""
            /\ userInfo' = NullUser
            /\ heard' = Notified(SignedOutState)
            /\ LoggedAll(t, seen \o <<Event("notify", Undefined, "")>>)
       ELSE /\ LoggedAll(t, seen)
            /\ UNCHANGED <<memVars, heard>>
  /\ Return(t, Ok("void"))

\* const settings = await getSettings()
attemptSilentSignin_start(t) ==
  /\ At(t, "attemptSilentSignin", "start")
  /\ Goto(t, AtPc(t, "gs_wait"))
  /\ UNCHANGED <<clock, pageSettings, gists, workerVars, restoreVars, storeVars, memVars, isUpdatingToken, timers, listenerVars, ret, log, before>>

\* no stored token: give up; the token already held: return; else testGitHubToken(storedToken)
attemptSilentSignin_settings(t) ==
  /\ At(t, "attemptSilentSignin", "gs_wait")
  /\ NoneReady
  /\ IF Falsy(getSettings.oauthToken)
       THEN attemptSilentSignin_giveUp(t, <<>>)
       ELSE IF isSignedIn /\ token = getSettings.oauthToken
         THEN /\ Return(t, Ok("void"))
              /\ UNCHANGED <<memVars, heard, log>>
         ELSE /\ Goto(t, [Top(t) EXCEPT !.pc = "test_wait",
                                        !.loc.storedToken = getSettings.oauthToken])
              /\ Logged(t, Event("testGitHubToken", getSettings.oauthToken, ""))
              /\ UNCHANGED <<memVars, heard, ret>>
  /\ UNCHANGED <<clock, pageSettings, gists, workerVars, restoreVars, storeVars, isUpdatingToken, timers, authStateListeners, before>>

\* testGitHubToken settles: valid goes on to getUserInfo, invalid or thrown gives up
attemptSilentSignin_tested(t, outcome) ==
  /\ At(t, "attemptSilentSignin", "test_wait")
  /\ NoneReady
  /\ IF outcome = "valid"
       THEN /\ Goto(t, AtPc(t, "user_wait"))
            /\ Logged(t, Event("testResult", Top(t).loc.storedToken, outcome))
            /\ UNCHANGED <<memVars, heard, ret>>
       ELSE attemptSilentSignin_giveUp(t, <<Event("testResult", Top(t).loc.storedToken, outcome)>>)
  /\ UNCHANGED <<clock, pageSettings, gists, workerVars, restoreVars, storeVars, isUpdatingToken, timers, authStateListeners, before>>

\* getUserInfo fails: caught, give up
attemptSilentSignin_userFails(t, e) ==
  /\ At(t, "attemptSilentSignin", "user_wait")
  /\ NoneReady
  /\ attemptSilentSignin_giveUp(t, <<Event("getUserInfoFailed", Top(t).loc.storedToken, e.id)>>)
  /\ UNCHANGED <<clock, pageSettings, gists, workerVars, restoreVars, storeVars, isUpdatingToken, timers, authStateListeners, before>>

\* (mutant) as attemptSilentSignin_user, but the fetched profile is dropped
attemptSilentSignin_user_forgets(t, l) ==
  /\ At(t, "attemptSilentSignin", "user_wait")
  /\ NoneReady
  /\ l = AccountOf(Top(t).loc.storedToken)
  /\ Return(t, Ok("void"))
  /\ Logged(t, Event("getUserInfoOk", Top(t).loc.storedToken, l))
  /\ UNCHANGED <<clock, pageSettings, gists, workerVars, restoreVars, storeVars, memVars, isUpdatingToken, timers, listenerVars, before>>

\* await markUserAsSignedIn(storedToken, user, refreshUI)
attemptSilentSignin_user(t, l) ==
  /\ At(t, "attemptSilentSignin", "user_wait")
  /\ NoneReady
  /\ l = AccountOf(Top(t).loc.storedToken)
  /\ Call(t, AtPc(t, "after_mark"),
          MarkSignedInFrame(Top(t).loc.storedToken, Profile(l), Top(t).loc.refreshUI))
  /\ Logged(t, Event("getUserInfoOk", Top(t).loc.storedToken, l))
  /\ UNCHANGED <<clock, pageSettings, gists, workerVars, restoreVars, storeVars, memVars, isUpdatingToken, timers, listenerVars, ret, before>>

attemptSilentSignin_marked(t) ==
  /\ At(t, "attemptSilentSignin", "after_mark")
  /\ Return(t, Ok("void"))
  /\ UNCHANGED <<clock, pageSettings, gists, workerVars, restoreVars, storeVars, memVars, isUpdatingToken, timers, listenerVars, log, before>>

(* ------------------------------------------------------------------ *)
(* restoreAuthState (auth.ts:298-322)                                  *)
(* ------------------------------------------------------------------ *)
RestoreFrame == Frame("restoreAuthState", "start", NoLocals)

\* already restored: return; an attempt in flight: wait for it; else start the attempt
restoreAuthState_start(t) ==
  /\ At(t, "restoreAuthState", "start")
  /\ IF authInitialized /\ isSignedIn /\ ~Falsy(token)
       THEN /\ Return(t, Ok("void"))
            /\ UNCHANGED restorePromise
       ELSE IF restorePromise # "null"
         THEN /\ Goto(t, AtPc(t, "join_wait"))
              /\ UNCHANGED <<restorePromise, ret>>
         ELSE /\ Call(t, AtPc(t, "after_attempt"), SilentFrame(TRUE))
              /\ restorePromise' = t
              /\ UNCHANGED ret
  /\ UNCHANGED <<clock, pageSettings, gists, workerVars, authInitialized, storeVars, memVars, isUpdatingToken, timers, listenerVars, log, before>>

\* The frame of a caller that was handed the promise in flight, once it has settled.
Joined(u, result) ==
  Below(u) \o <<Frame("restoreAuthState", "joined", [result |-> result])>>

\* (mutant) as restoreAuthState_attempted, but restorePromise is left in place
restoreAuthState_attempted_keepsPromise(t) ==
  /\ At(t, "restoreAuthState", "after_attempt")
  /\ authInitialized' = TRUE
  /\ ret' = [ret EXCEPT ![t] = ret[t]]
  /\ stack' = [u \in Tasks |->
                 IF u = t THEN Below(t)
                 ELSE IF At(u, "restoreAuthState", "join_wait") THEN Joined(u, ret[t])
                 ELSE stack[u]]
  /\ UNCHANGED <<clock, pageSettings, gists, workerVars, restorePromise, storeVars, memVars, isUpdatingToken, timers, listenerVars, log, before>>

\* .then(() => { authInitialized = true; restorePromise = null }): the promise settles,
\* for the caller that started the attempt and for every caller that was handed it
restoreAuthState_attempted(t) ==
  /\ At(t, "restoreAuthState", "after_attempt")
  /\ authInitialized' = TRUE
  /\ restorePromise' = "null"
  /\ ret' = [ret EXCEPT ![t] = ret[t]]
  /\ stack' = [u \in Tasks |->
                 IF u = t THEN Below(t)
                 ELSE IF At(u, "restoreAuthState", "join_wait") THEN Joined(u, ret[t])
                 ELSE stack[u]]
  /\ UNCHANGED <<clock, pageSettings, gists, workerVars, storeVars, memVars, isUpdatingToken, timers, listenerVars, log, before>>

\* return restorePromise, settled: the caller that was handed it settles with its outcome
restoreAuthState_joined(t) ==
  /\ At(t, "restoreAuthState", "joined")
  /\ Return(t, Top(t).loc.result)
  /\ UNCHANGED <<clock, pageSettings, gists, workerVars, restoreVars, storeVars, memVars, isUpdatingToken, timers, listenerVars, log, before>>

(* ------------------------------------------------------------------ *)
(* initializeAuth and its storage listener (auth.ts:324-374)           *)
(* ------------------------------------------------------------------ *)
\* initializeAuth(): await attemptSilentSignin(true)
CallInitializeAuth(t) ==
  /\ Idle(t)
  /\ NoneReady
  /\ ~listening
  /\ stack' = [stack EXCEPT ![t] = <<Frame("initializeAuth", "after_attempt", NoLocals),
                                      SilentFrame(TRUE)>>]
  /\ ret' = [ret EXCEPT ![t] = NoRet]
  /\ log' = [log EXCEPT ![t] = <<Event("call initializeAuth", "", "")>>]
  /\ before' = [before EXCEPT ![t] = Snapshot(AuthStateNow, doc)]
  /\ UNCHANGED <<clock, pageSettings, gists, workerVars, restoreVars, storeVars, memVars, isUpdatingToken, timers, listenerVars>>

\* authInitialized = true; chrome.storage.onChanged.addListener(...)
initializeAuth_attempted(t) ==
  /\ At(t, "initializeAuth", "after_attempt")
  /\ authInitialized' = TRUE
  /\ listening' = TRUE
  /\ Return(t, ret[t])
  /\ UNCHANGED <<clock, pageSettings, gists, changes, restorePromise, storeVars, memVars, isUpdatingToken, timers, listenerVars, log, before>>

\* The task that runs the attempt the listener started; one such attempt at a time.
ListenerTasks == {"t2"}
FreeForListener(t) == t \in ListenerTasks /\ Idle(t)

\* attemptSilentSignin(true).catch(...): the listener starts the attempt and does not wait
StorageChanged_attempt(t, c) ==
  /\ FreeForListener(t)
  /\ stack' = [stack EXCEPT ![t] = <<SilentFrame(TRUE)>>]
  /\ ret' = [ret EXCEPT ![t] = NoRet]
  /\ log' = [log EXCEPT ![t] = <<Event("storage change", c.newToken, c.by)>>]
  /\ before' = [before EXCEPT ![t] = Snapshot(AuthStateNow, doc)]
  /\ UNCHANGED <<memVars, heard>>

\* markUserAsSignedOut() called by the listener
StorageChanged_signedOut ==
  /\ token' = Undefined
  /\ isSignedIn' = FALSE
  /\ login' = ""
  /\ userInfo' = NullUser
  /\ heard' = Notified(SignedOutState)
  /\ UNCHANGED <<stack, ret, log, before>>

\* the chrome.storage.onChanged listener receives the next change of "tabManagerData";
\* t is the task that runs the attempt when the listener starts one
StorageChanged(t) ==
  /\ listening
  /\ changes # <<>>
  /\ NoneReady
  /\ changes' = Tail(changes)
  /\ LET c == Head(changes)
     IN IF isUpdatingToken \/ c.newToken = c.oldToken \/ (c.newToken = token /\ isSignedIn)
          THEN UNCHANGED <<memVars, heard, stack, ret, log, before>>
          ELSE IF ~Falsy(c.newToken) /\ c.newToken # token
            THEN StorageChanged_attempt(t, c)
            ELSE IF Falsy(c.newToken) /\ isSignedIn
              THEN StorageChanged_signedOut
              ELSE UNCHANGED <<memVars, heard, stack, ret, log, before>>
  /\ UNCHANGED <<clock, pageSettings, gists, listening, restoreVars, storeVars, isUpdatingToken, timers, authStateListeners>>

(* ------------------------------------------------------------------ *)
(* The presentation layer: the calls it makes, and its listeners       *)
(* ------------------------------------------------------------------ *)
Begin(t, frame, e) ==
  /\ Idle(t)
  /\ NoneReady
  /\ stack' = [stack EXCEPT ![t] = <<frame>>]
  /\ ret' = [ret EXCEPT ![t] = NoRet]
  /\ log' = [log EXCEPT ![t] = <<e>>]
  /\ before' = [before EXCEPT ![t] = Snapshot(AuthStateNow, doc)]
  /\ UNCHANGED <<clock, pageSettings, gists, workerVars, restoreVars, storeVars, memVars, isUpdatingToken, timers, listenerVars>>

CallSignIn(t) == Begin(t, SignInFrame, Event("call signIn", "", ""))
CallSignOut(t) == Begin(t, SignOutFrame, Event("call signOut", "", ""))
CallRestoreAuthState(t) ==
  Begin(t, RestoreFrame,
        Event("call restoreAuthState", "", IF restorePromise = "null" THEN "idle" ELSE "in flight"))
CallEnsureAuthenticated(t) ==
  Begin(t, EnsureFrame, Event("call ensureAuthenticated", "", ""))
\* let currentToken = token; let retryCount = 0
CallWithRetryOn401(t, maxRetries) ==
  Begin(t, RetryFrame("loop", token, 0, maxRetries, NoError),
        Event("call withRetryOn401", token, ToString(maxRetries)))

\* onAuthStateChange(listener): add it and call it with the current state
onAuthStateChange(l) ==
  /\ NoneReady
  /\ l \notin authStateListeners
  /\ authStateListeners' = authStateListeners \cup {l}
  /\ heard' = [heard EXCEPT ![l] = <<AuthStateNow>>]
  /\ UNCHANGED <<clock, pageSettings, gists, workerVars, restoreVars, storeVars, memVars, isUpdatingToken, timers, stack, ret, log, before>>

\* the unsubscribe function onAuthStateChange returned
Unsubscribe(l) ==
  /\ NoneReady
  /\ l \in authStateListeners
  /\ authStateListeners' = authStateListeners \ {l}
  /\ heard' = [heard EXCEPT ![l] = <<>>]
  /\ UNCHANGED <<clock, pageSettings, gists, workerVars, restoreVars, storeVars, memVars, isUpdatingToken, timers, stack, ret, log, before>>

\* the caller of a settled top-level call takes its result
Settle(t) ==
  /\ Settled(t)
  /\ ret' = [ret EXCEPT ![t] = NoRet]
  /\ log' = [log EXCEPT ![t] = <<>>]
  /\ before' = [before EXCEPT ![t] = NoSnapshot]
  /\ UNCHANGED <<clock, pageSettings, gists, workerVars, restoreVars, storeVars, memVars, isUpdatingToken, timers, listenerVars, stack>>

(* ------------------------------------------------------------------ *)
(* Specification: one surface making its calls one after the other     *)
(* ------------------------------------------------------------------ *)
Resume(t) ==
  \/ saveSettings_start(t) \/ saveSettings_read(t) \/ saveSettings_write(t)
  \/ signOut_start(t) \/ signOut_settings(t) \/ signOut_saved(t) \/ signOut_finish(t)
  \/ markUserAsSignedIn_start(t) \/ markUserAsSignedIn_settings(t)
  \/ markUserAsSignedIn_saved(t) \/ markUserAsSignedIn_finish(t)
  \/ authenticateWithGitHub_start(t) \/ authenticateWithGitHub_stored(t)
  \/ \E e \in FlowFailures : authenticateWithGitHub_callbackFails(t, e)
  \/ authenticateWithGitHub_callbackCode(t) \/ authenticateWithGitHub_verifier(t)
  \/ \E e \in TokenFailures : authenticateWithGitHub_tokenFails(t, e)
  \/ \E tk \in Tokens : authenticateWithGitHub_token(t, tk)
  \/ signIn_start(t) \/ signIn_settings(t) \/ signIn_exchanged(t)
  \/ \E e \in UserInfoFailures : signIn_userFails(t, e)
  \/ \E l \in Logins : signIn_user(t, l)
  \/ signIn_marked(t)
  \/ ensureAuthenticated_start(t)
  \/ \E o \in TestOutcomes : ensureAuthenticated_tested(t, o)
  \/ ensureAuthenticated_signedOut(t)
  \/ attemptSilentSignin_start(t) \/ attemptSilentSignin_settings(t)
  \/ \E o \in TestOutcomes : attemptSilentSignin_tested(t, o)
  \/ \E e \in UserInfoFailures : attemptSilentSignin_userFails(t, e)
  \/ \E l \in Logins : attemptSilentSignin_user(t, l)
  \/ attemptSilentSignin_marked(t)
  \/ restoreAuthState_start(t) \/ restoreAuthState_attempted(t)
  \/ withRetryOn401_loop(t) \/ withRetryOn401_ensured(t)
  \/ \E r \in OpResults : withRetryOn401_opResolves(t, r)
  \/ \E e \in OpErrors : withRetryOn401_opRejects(t, e)
  \/ withRetryOn401_signedOut(t) \/ withRetryOn401_settings(t) \/ withRetryOn401_signedIn(t)

Calls(t) ==
  \/ CallSignIn(t) \/ CallSignOut(t) \/ CallEnsureAuthenticated(t) \/ CallRestoreAuthState(t)
  \/ \E n \in 0..MaxRetriesBound : CallWithRetryOn401(t, n)

Next ==
  \/ Calls("t1")
  \/ Resume("t1")
  \/ Settle("t1")
  \/ TimerFire
  \/ \E v \in {Absent, "v_other"} : OtherSurfaceExchange(v)
  \/ \E l \in ListenerIds : onAuthStateChange(l)
  \/ \E l \in ListenerIds : Unsubscribe(l)

Spec == Init /\ [][Next]_vars

(* ------------------------------------------------------------------ *)
(* Specification: one surface whose components call restoreAuthState   *)
(* without waiting for one another, beside another surface that signs  *)
(* in and out over the same store                                      *)
(* ------------------------------------------------------------------ *)
\* saveSettings of the signIn / signOut of another surface lands in the store
OtherSurfaceWritesToken(tk) ==
  /\ NoneReady
  /\ getSettings.oauthToken # tk
  /\ doc' = saveStorageData([getStorageData EXCEPT !.settings.oauthToken = tk])
  /\ Changed("other", doc, doc')
  /\ UNCHANGED <<clock, pageSettings, gists, listening, restoreVars, verifierSlot, memVars, isUpdatingToken, timers, listenerVars,
                 stack, ret, log, before>>

\* Callers are interchangeable: a new call is given to the first caller that has none.
TaskOrder == <<"t1", "t2", "t3">>
FirstIdle(t) == \E i \in 1..Len(TaskOrder) :
                  TaskOrder[i] = t /\ \A j \in 1..(i - 1) : ~Idle(TaskOrder[j])

ResumeRestore(t) ==
  \/ saveSettings_start(t) \/ saveSettings_read(t) \/ saveSettings_write(t)
  \/ markUserAsSignedIn_start(t) \/ markUserAsSignedIn_settings(t)
  \/ markUserAsSignedIn_saved(t) \/ markUserAsSignedIn_finish(t)
  \/ attemptSilentSignin_start(t) \/ attemptSilentSignin_settings(t)
  \/ \E o \in TestOutcomes : attemptSilentSignin_tested(t, o)
  \/ \E e \in UserInfoFailures : attemptSilentSignin_userFails(t, e)
  \/ \E l \in Logins : attemptSilentSignin_user(t, l)
  \/ attemptSilentSignin_marked(t)
  \/ restoreAuthState_start(t) \/ restoreAuthState_attempted(t) \/ restoreAuthState_joined(t)

NextRestore ==
  \/ \E t \in Tasks : FirstIdle(t) /\ CallRestoreAuthState(t)
  \/ \E t \in Tasks : ResumeRestore(t)
  \/ \E t \in Tasks : Settle(t)
  \/ TimerFire
  \/ \E tk \in Tokens \cup {Absent} : OtherSurfaceWritesToken(tk)
  \/ \E l \in ListenerIds : onAuthStateChange(l)
  \/ \E l \in ListenerIds : Unsubscribe(l)

SpecRestore == Init /\ [][NextRestore]_vars

(* ------------------------------------------------------------------ *)
(* Specification: the background process, which runs initializeAuth    *)
(* and then only its storage listener, beside another surface that     *)
(* signs in and out over the same store                                *)
(* ------------------------------------------------------------------ *)
ResumeWorker(t) ==
  \/ saveSettings_start(t) \/ saveSettings_read(t) \/ saveSettings_write(t)
  \/ markUserAsSignedIn_start(t) \/ markUserAsSignedIn_settings(t)
  \/ markUserAsSignedIn_saved(t) \/ markUserAsSignedIn_finish(t)
  \/ attemptSilentSignin_start(t) \/ attemptSilentSignin_settings(t)
  \/ \E o \in TestOutcomes : attemptSilentSignin_tested(t, o)
  \/ \E e \in UserInfoFailures : attemptSilentSignin_userFails(t, e)
  \/ \E l \in Logins : attemptSilentSignin_user(t, l)
  \/ attemptSilentSignin_marked(t)
  \/ initializeAuth_attempted(t)

NextWorker ==
  \/ CallInitializeAuth("t1")
  \/ \E t \in Tasks : ResumeWorker(t)
  \/ \E t \in Tasks : Settle(t)
  \/ \E t \in ListenerTasks : StorageChanged(t)
  \/ TimerFire
  \/ \E tk \in Tokens \cup {Absent} : OtherSurfaceWritesToken(tk)
  \/ \E l \in ListenerIds : onAuthStateChange(l)
  \/ \E l \in ListenerIds : Unsubscribe(l)

SpecWorker == Init /\ [][NextWorker]_vars

(* ------------------------------------------------------------------ *)
(* Specification: a process that has run initializeAuth, so that the   *)
(* storage listener is installed, and that signs in and out itself;    *)
(* it makes its next call when no attempt of the listener is running   *)
(* ------------------------------------------------------------------ *)
ResumeGuard(t) ==
  \/ saveSettings_start(t) \/ saveSettings_read(t) \/ saveSettings_write(t)
  \/ signOut_start(t) \/ signOut_settings(t) \/ signOut_saved(t) \/ signOut_finish(t)
  \/ markUserAsSignedIn_start(t) \/ markUserAsSignedIn_settings(t)
  \/ markUserAsSignedIn_saved(t) \/ markUserAsSignedIn_finish(t)
  \/ authenticateWithGitHub_start(t) \/ authenticateWithGitHub_stored(t)
  \/ \E e \in FlowFailures : authenticateWithGitHub_callbackFails(t, e)
  \/ authenticateWithGitHub_callbackCode(t) \/ authenticateWithGitHub_verifier(t)
  \/ \E e \in TokenFailures : authenticateWithGitHub_tokenFails(t, e)
  \/ \E tk \in Tokens : authenticateWithGitHub_token(t, tk)
  \/ signIn_start(t) \/ signIn_settings(t) \/ signIn_exchanged(t)
  \/ \E e \in UserInfoFailures : signIn_userFails(t, e)
  \/ \E l \in Logins : signIn_user(t, l)
  \/ signIn_marked(t)
  \/ attemptSilentSignin_start(t) \/ attemptSilentSignin_settings(t)
  \/ \E o \in TestOutcomes : attemptSilentSignin_tested(t, o)
  \/ \E e \in UserInfoFailures : attemptSilentSignin_userFails(t, e)
  \/ \E l \in Logins : attemptSilentSignin_user(t, l)
  \/ attemptSilentSignin_marked(t)
  \/ initializeAuth_attempted(t)

CallsGuard(t) ==
  /\ listening
  /\ \A u \in ListenerTasks : Idle(u)
  /\ (CallSignIn(t) \/ CallSignOut(t))

NextGuard ==
  \/ CallInitializeAuth("t1")
  \/ CallsGuard("t1")
  \/ \E t \in Tasks : ResumeGuard(t)
  \/ \E t \in Tasks : Settle(t)
  \/ \E t \in ListenerTasks : StorageChanged(t)
  \/ TimerFire
  \/ \E l \in ListenerIds : onAuthStateChange(l)
  \/ \E l \in ListenerIds : Unsubscribe(l)

SpecGuard == Init /\ [][NextGuard]_vars

(* ------------------------------------------------------------------ *)
(* The remote: gists and their files (storage.ts from line 250)        *)
(* ------------------------------------------------------------------ *)
GIST_FILENAME == "the-one-tab-data.json"
\* the file names whose text includes "the-one-tab"
NamesWithMarker == {GIST_FILENAME, "my-the-one-tab.json"}

\* JSON.stringify(data, null, 2): members that are undefined are left out
JSONstringify(data) ==
  [groups |-> data.groups, settings |-> StoredSettings(data.settings), json |-> TRUE,
   hasGroups |-> TRUE, hasSettings |-> TRUE]
\* JSON.parse(content) of a text that is JSON
JSONparse(content) ==
  [present |-> TRUE, groups |-> content.groups, settings |-> content.settings]
\* a file whose text is not JSON
NotJson ==
  [groups |-> <<>>, settings |-> DefaultSettings, json |-> FALSE,
   hasGroups |-> FALSE, hasSettings |-> FALSE]

File(name, content) == [name |-> name, content |-> content]
\* Object.keys(files)[0], or 0 when there is no file
FirstKey(files) == IF Len(files) > 0 THEN 1 ELSE 0
\* the request body files: {[filename]: {content}} applied by the remote: a file of that
\* name is replaced where it is, a new one is put at position p of the listing
Patched(files, filename, content, p) ==
  IF \E i \in 1..Len(files) : files[i].name = filename
    THEN [i \in 1..Len(files) |->
            IF files[i].name = filename THEN File(filename, content) ELSE files[i]]
    ELSE SubSeq(files, 1, p - 1) \o <<File(filename, content)>> \o SubSeq(files, p, Len(files))
Positions(files, filename) ==
  IF \E i \in 1..Len(files) : files[i].name = filename THEN {1} ELSE 1..(Len(files) + 1)

\* what the remote answers to a request on gist id: 200 only for a gist that exists, 404
\* only for one that does not; "throws" is a fetch that rejects
HttpOutcomes == {"200", "401", "403", "404", "500", "throws"}
Answers(id, o) ==
  /\ o = "200" => gists[id].exists
  /\ o = "404" => ~gists[id].exists
PostOutcomes == {"201", "401", "403", "500", "throws"}

\* the errors of the sync functions; msg lists the fragments of the message
SyncFetchThrew == [id |-> "SyncFetchThrew", msg |-> <<"Failed to fetch">>]
GistNotFound404(gistId) ==
  [id |-> "GistNotFound404",
   msg |-> <<"Gist khong ton tai (", "404", "). Vui long kiem tra lai Gist ID: ", gistId>>]
UpdateDenied(status, gistId) ==
  [id |-> "UpdateDenied",
   msg |-> <<"Token khong the update Gist ", gistId, " (", status, ").", "Chi tiet: ", "errorMessage",
             "Dieu nay co the do: ... Giai phap: ...">>]
UpdateFailed(status) ==
  [id |-> "UpdateFailed", msg |-> <<"Failed to update Gist (HTTP ", status, "): ", "errorMessage">>]
CreateDenied401 ==
  [id |-> "CreateDenied401",
   msg |-> <<"Token khong hop le hoac da ", "het han", " (", "401", ").", "Chi tiet: ", "errorMessage">>]
CreateDenied403 ==
  [id |-> "CreateDenied403",
   msg |-> <<"Token khong co quyen tao Gist (", "403", ").", "Chi tiet: ", "errorMessage">>]
CreateFailed(status) ==
  [id |-> "CreateFailed", msg |-> <<"Failed to create Gist (HTTP ", status, "): ", "errorMessage">>]
FetchDenied ==
  [id |-> "FetchDenied", msg |-> <<"Token khong the doc Gist (", "401", "/", "403", ").">>]
FetchNotFound ==
  [id |-> "FetchNotFound", msg |-> <<"Gist khong ton tai. Vui long kiem tra lai Gist ID.">>]
FetchFailed == [id |-> "FetchFailed", msg |-> <<"Failed to fetch Gist: ", "statusText">>]
GistFileNotFound == [id |-> "GistFileNotFound", msg |-> <<"Gist file not found">>]
JsonSyntaxError == [id |-> "JsonSyntaxError", msg |-> <<"Unexpected token">>]
InvalidDataFormat == [id |-> "InvalidDataFormat", msg |-> <<"Invalid data format">>]
\* errorMsg.length > 200: the 401/403 message of updateGist with its advice
LongMessage(e) == e.id = "UpdateDenied"

(* ------------------------------------------------------------------ *)
(* updateGist (storage.ts:488-600)                                     *)
(* ------------------------------------------------------------------ *)
\* const content = JSON.stringify(data, null, 2); let filename = GIST_FILENAME
UpdateGistFrame(tk, gistId, data) ==
  Frame("updateGist", "start",
        [token |-> tk, gistId |-> gistId, content |-> JSONstringify(data), filename |-> GIST_FILENAME])

\* the preliminary GET is sent
updateGist_start(t) ==
  /\ At(t, "updateGist", "start")
  /\ Goto(t, AtPc(t, "get_wait"))
  /\ UNCHANGED <<clock, pageSettings, gists, workerVars, restoreVars, storeVars, memVars, isUpdatingToken, timers, listenerVars, ret, log, before>>

\* (mutant) as updateGist_got, but a read that fails with a server error ends the update
updateGist_got_givesUp(t, o) ==
  /\ At(t, "updateGist", "get_wait")
  /\ NoneReady
  /\ Answers(Top(t).loc.gistId, o)
  /\ LET gistId == Top(t).loc.gistId
         files == gists[gistId].files
         filename == IF o = "200" /\ FirstKey(files) # 0
                       THEN files[FirstKey(files)].name ELSE GIST_FILENAME
     IN IF o \in {"404", "500"}
          THEN /\ Return(t, Err(GistNotFound404(gistId)))
               /\ Logged(t, Event("getResponse", gistId, o))
          ELSE /\ Goto(t, Frame("updateGist", "patch_wait",
                                [Top(t).loc EXCEPT !.filename = filename]))
               /\ LoggedAll(t, <<Event("getResponse", gistId, o), Event("PATCH", gistId, filename)>>)
               /\ UNCHANGED ret
  /\ UNCHANGED <<clock, pageSettings, gists, workerVars, restoreVars, storeVars, memVars, isUpdatingToken, timers, listenerVars, before>>

\* the GET is answered: the name of the first file on 200, the 404 error on 404, the
\* default name otherwise; then the PATCH is sent
updateGist_got(t, o) ==
  /\ At(t, "updateGist", "get_wait")
  /\ NoneReady
  /\ Answers(Top(t).loc.gistId, o)
  /\ LET gistId == Top(t).loc.gistId
         files == gists[gistId].files
         filename == IF o = "200" /\ FirstKey(files) # 0
                       THEN files[FirstKey(files)].name ELSE GIST_FILENAME
     IN IF o = "404"
          THEN /\ Return(t, Err(GistNotFound404(gistId)))
               /\ Logged(t, Event("getResponse", gistId, o))
          ELSE /\ Goto(t, Frame("updateGist", "patch_wait",
                                [Top(t).loc EXCEPT !.filename = filename]))
               /\ LoggedAll(t, <<Event("getResponse", gistId, o), Event("PATCH", gistId, filename)>>)
               /\ UNCHANGED ret
  /\ UNCHANGED <<clock, pageSettings, gists, workerVars, restoreVars, storeVars, memVars, isUpdatingToken, timers, listenerVars, before>>

\* the PATCH is answered
updateGist_patched(t, o) ==
  /\ At(t, "updateGist", "patch_wait")
  /\ NoneReady
  /\ Answers(Top(t).loc.gistId, o)
  /\ LET gistId == Top(t).loc.gistId
         filename == Top(t).loc.filename
     IN IF o = "200"
          THEN /\ \E p \in Positions(gists[gistId].files, filename) :
                    gists' = [gists EXCEPT ![gistId].files =
                                Patched(@, filename, Top(t).loc.content, p)]
               /\ Return(t, Ok("void"))
          ELSE /\ UNCHANGED gists
               /\ Return(t, Err(CASE o \in {"401", "403"} -> UpdateDenied(o, gistId)
                                  [] o = "404" -> GistNotFound404(gistId)
                                  [] o = "500" -> UpdateFailed(o)
                                  [] OTHER -> SyncFetchThrew))
  /\ Logged(t, Event("patchResponse", Top(t).loc.gistId, o))
  /\ UNCHANGED <<clock, pageSettings, workerVars, restoreVars, storeVars, memVars, isUpdatingToken, timers, listenerVars, before>>

(* ------------------------------------------------------------------ *)
(* createGist (storage.ts:402-486)                                     *)
(* ------------------------------------------------------------------ *)
CreateGistFrame(tk) ==
  Frame("createGist", "start", [token |-> tk, content |-> NotJson, newId |-> ""])

\* const data = await getStorageDataForSync(): the read is issued
createGist_start(t) ==
  /\ At(t, "createGist", "start")
  /\ Goto(t, AtPc(t, "data_wait"))
  /\ UNCHANGED <<clock, pageSettings, gists, workerVars, restoreVars, storeVars, memVars, isUpdatingToken, timers, listenerVars, ret, log, before>>

\* the read completes and the POST is sent
createGist_data(t) ==
  /\ At(t, "createGist", "data_wait")
  /\ NoneReady
  /\ Goto(t, Frame("createGist", "post_wait",
                   [Top(t).loc EXCEPT !.content = JSONstringify(getStorageData)]))
  /\ Logged(t, Event("POST", "", GIST_FILENAME))
  /\ UNCHANGED <<clock, pageSettings, gists, workerVars, restoreVars, storeVars, memVars, isUpdatingToken, timers, listenerVars, ret, before>>

\* the POST is answered: on 201 the remote has made a gist under an id of its choice
createGist_posted(t, o) ==
  /\ At(t, "createGist", "post_wait")
  /\ NoneReady
  /\ IF o = "201"
       THEN \E id \in GistIds :
              /\ ~gists[id].exists
              /\ gists' = [gists EXCEPT ![id] =
                             [exists |-> TRUE, files |-> <<File(GIST_FILENAME, Top(t).loc.content)>>]]
              /\ Goto(t, Frame("createGist", "verify_wait", [Top(t).loc EXCEPT !.newId = id]))
              /\ Logged(t, Event("created", id, o))
              /\ UNCHANGED ret
       ELSE /\ UNCHANGED gists
            /\ Return(t, Err(CASE o = "401" -> CreateDenied401
                               [] o = "403" -> CreateDenied403
                               [] o = "500" -> CreateFailed(o)
                               [] OTHER -> SyncFetchThrew))
            /\ Logged(t, Event("postResponse", "", o))
  /\ UNCHANGED <<clock, pageSettings, workerVars, restoreVars, storeVars, memVars, isUpdatingToken, timers, listenerVars, before>>

\* the check of the token against /user is answered, whatever the answer; return gist.id
createGist_verified(t) ==
  /\ At(t, "createGist", "verify_wait")
  /\ NoneReady
  /\ Return(t, Ok(Top(t).loc.newId))
  /\ UNCHANGED <<clock, pageSettings, gists, workerVars, restoreVars, storeVars, memVars, isUpdatingToken, timers, listenerVars, log, before>>

(* ------------------------------------------------------------------ *)
(* syncToGist (storage.ts:602-649)                                     *)
(* ------------------------------------------------------------------ *)
SyncToGistFrame(tk, gistId) ==
  Frame("syncToGist", "start", [token |-> tk, gistId |-> gistId, newGistId |-> ""])

\* the catch block: a long message or one about permissions is rethrown, one that
\* includes 401 or 403 is replaced, any other is rethrown
SyncError(e) ==
  IF Includes(e.msg, "Permissions") \/ Includes(e.msg, "permissions") \/ LongMessage(e)
    THEN e
    ELSE IF Includes(e.msg, "401") \/ Includes(e.msg, "403")
           THEN [id |-> "SyncTokenError",
                 msg |-> <<"Token khong the sync Gist.", "Chi tiet: ">> \o e.msg]
           ELSE e

\* const data = await getStorageDataForSync(): the read is issued
syncToGist_start(t) ==
  /\ At(t, "syncToGist", "start")
  /\ Goto(t, AtPc(t, "data_wait"))
  /\ UNCHANGED <<clock, pageSettings, gists, workerVars, restoreVars, storeVars, memVars, isUpdatingToken, timers, listenerVars, ret, log, before>>

\* (mutant) as syncToGist_data, but a gist is created whether or not an id was given
syncToGist_data_alwaysCreates(t) ==
  /\ At(t, "syncToGist", "data_wait")
  /\ NoneReady
  /\ Call(t, AtPc(t, "after_create"), CreateGistFrame(Top(t).loc.token))
  /\ UNCHANGED <<clock, pageSettings, gists, workerVars, restoreVars, storeVars, memVars, isUpdatingToken, timers, listenerVars, ret, log, before>>

\* the read completes: if (gistId) updateGist(token, gistId, data) else createGist(token)
syncToGist_data(t) ==
  /\ At(t, "syncToGist", "data_wait")
  /\ NoneReady
  /\ IF ~Falsy(Top(t).loc.gistId)
       THEN Call(t, AtPc(t, "after_update"),
                 UpdateGistFrame(Top(t).loc.token, Top(t).loc.gistId, getStorageData))
       ELSE Call(t, AtPc(t, "after_create"), CreateGistFrame(Top(t).loc.token))
  /\ UNCHANGED <<clock, pageSettings, gists, workerVars, restoreVars, storeVars, memVars, isUpdatingToken, timers, listenerVars, ret, log, before>>

\* updateGist has settled
syncToGist_updated(t) ==
  /\ At(t, "syncToGist", "after_update")
  /\ Return(t, IF ret[t].kind = "ok" THEN Ok("void") ELSE Err(SyncError(ret[t].err)))
  /\ UNCHANGED <<clock, pageSettings, gists, workerVars, restoreVars, storeVars, memVars, isUpdatingToken, timers, listenerVars, log, before>>

\* createGist has settled; const currentSettings = await getSettings()
syncToGist_created(t) ==
  /\ At(t, "syncToGist", "after_create")
  /\ IF ret[t].kind = "ok"
       THEN /\ Goto(t, Frame("syncToGist", "gs_wait", [Top(t).loc EXCEPT !.newGistId = ret[t].val]))
            /\ ret' = [ret EXCEPT ![t] = NoRet]
       ELSE Return(t, Err(SyncError(ret[t].err)))
  /\ UNCHANGED <<clock, pageSettings, gists, workerVars, restoreVars, storeVars, memVars, isUpdatingToken, timers, listenerVars, log, before>>

\* await saveSettings({ ...currentSettings, gistId: newGistId })
syncToGist_settings(t) ==
  /\ At(t, "syncToGist", "gs_wait")
  /\ NoneReady
  /\ Call(t, AtPc(t, "after_save"),
          SaveSettingsFrame([getSettings EXCEPT !.gistId = Top(t).loc.newGistId]))
  /\ UNCHANGED <<clock, pageSettings, gists, workerVars, restoreVars, storeVars, memVars, isUpdatingToken, timers, listenerVars, ret, log, before>>

syncToGist_saved(t) ==
  /\ At(t, "syncToGist", "after_save")
  /\ Return(t, Ok("void"))
  /\ UNCHANGED <<clock, pageSettings, gists, workerVars, restoreVars, storeVars, memVars, isUpdatingToken, timers, listenerVars, log, before>>

(* ------------------------------------------------------------------ *)
(* syncFromGist (storage.ts:661-712)                                   *)
(* ------------------------------------------------------------------ *)
SyncFromGistFrame(tk, gistId) ==
  Frame("syncFromGist", "start", [token |-> tk, gistId |-> gistId, data |-> NoDoc])

\* Object.keys(files).find((name) => name.includes("the-one-tab")) || Object.keys(files)[0]
PickFile(files) ==
  LET marked == {i \in 1..Len(files) : files[i].name \in NamesWithMarker}
  IN IF marked # {} THEN CHOOSE i \in marked : \A j \in marked : i <= j
     ELSE FirstKey(files)

\* what a 200 answer with these files makes of the call: an error, or the parsed data
Fetched(files) ==
  LET i == PickFile(files)
  IN IF i = 0 THEN Err(GistFileNotFound)
     ELSE IF ~files[i].content.json THEN Err(JsonSyntaxError)
     ELSE IF ~files[i].content.hasGroups \/ ~files[i].content.hasSettings
            THEN Err(InvalidDataFormat)
     ELSE OkData(JSONparse(files[i].content))

\* the GET is sent
syncFromGist_start(t) ==
  /\ At(t, "syncFromGist", "start")
  /\ Goto(t, AtPc(t, "get_wait"))
  /\ UNCHANGED <<clock, pageSettings, gists, workerVars, restoreVars, storeVars, memVars, isUpdatingToken, timers, listenerVars, ret, log, before>>

\* (mutant) as syncFromGist_got, but what was parsed is stored before it is validated
syncFromGist_got_storesFirst(t, o) ==
  /\ At(t, "syncFromGist", "get_wait")
  /\ NoneReady
  /\ Answers(Top(t).loc.gistId, o)
  /\ LET gistId == Top(t).loc.gistId
         r == IF o = "200" THEN Fetched(gists[gistId].files)
              ELSE Err(CASE o \in {"401", "403"} -> FetchDenied
                         [] o = "404" -> FetchNotFound
                         [] o = "500" -> FetchFailed
                         [] OTHER -> SyncFetchThrew)
         i == PickFile(gists[gistId].files)
     IN /\ IF r.kind = "ok"
             THEN /\ Goto(t, Frame("syncFromGist", "set_wait", [Top(t).loc EXCEPT !.data = r.data]))
                  /\ UNCHANGED ret
             ELSE Return(t, r)
        /\ doc' = IF o = "200" /\ i # 0 /\ gists[gistId].files[i].content.json
                    THEN saveStorageData(JSONparse(gists[gistId].files[i].content))
                    ELSE doc
  /\ Logged(t, Event("fetchResponse", Top(t).loc.gistId, o))
  /\ UNCHANGED <<clock, pageSettings, gists, workerVars, restoreVars, verifierSlot, memVars, isUpdatingToken, timers, listenerVars, before>>

\* the GET is answered: an error, or the file is picked, parsed and validated and the
\* write of the local store is issued
syncFromGist_got(t, o) ==
  /\ At(t, "syncFromGist", "get_wait")
  /\ NoneReady
  /\ Answers(Top(t).loc.gistId, o)
  /\ LET gistId == Top(t).loc.gistId
         r == IF o = "200" THEN Fetched(gists[gistId].files)
              ELSE Err(CASE o \in {"401", "403"} -> FetchDenied
                         [] o = "404" -> FetchNotFound
                         [] o = "500" -> FetchFailed
                         [] OTHER -> SyncFetchThrew)
     IN IF r.kind = "ok"
          THEN /\ Goto(t, Frame("syncFromGist", "set_wait", [Top(t).loc EXCEPT !.data = r.data]))
               /\ UNCHANGED ret
          ELSE Return(t, r)
  /\ Logged(t, Event("fetchResponse", Top(t).loc.gistId, o))
  /\ UNCHANGED <<clock, pageSettings, gists, workerVars, restoreVars, storeVars, memVars, isUpdatingToken, timers, listenerVars, before>>

\* await setStorageDataFromSync(data); return data
syncFromGist_stored(t) ==
  /\ At(t, "syncFromGist", "set_wait")
  /\ NoneReady
  /\ doc' = saveStorageData(Top(t).loc.data)
  /\ Changed("syncFromGist", doc, doc')
  /\ Return(t, OkData(Top(t).loc.data))
  /\ Logged(t, Event("stored", Top(t).loc.gistId, ""))
  /\ UNCHANGED <<clock, pageSettings, gists, listening, restoreVars, verifierSlot, memVars, isUpdatingToken, timers, listenerVars, before>>

(* ------------------------------------------------------------------ *)
(* Specification: one surface that syncs to and from the remote, over  *)
(* a gist that may exist already with files of any kind                *)
(* ------------------------------------------------------------------ *)
\* a document uploaded by an earlier sync, of this or of another installation
OldData ==
  [present |-> TRUE,
   groups |-> <<createDefaultGroup, [id |-> "G1", name |-> "Work", tabs |-> <<>>, createdAt |-> 0, updatedAt |-> 0]>>,
   settings |-> [DefaultSettings EXCEPT !.closeAndSave = TRUE, !.oauthToken = "T2", !.gistId = "g1"]]
NoGroupsKey == [JSONstringify(OldData) EXCEPT !.hasGroups = FALSE, !.groups = <<>>]
NoSettingsKey == [JSONstringify(OldData) EXCEPT !.hasSettings = FALSE, !.settings = DefaultSettings]

InitialFiles ==
  {<<>>,
   <<File(GIST_FILENAME, JSONstringify(OldData))>>,
   <<File("backup.json", JSONstringify(OldData))>>,
   <<File("README.md", NotJson), File(GIST_FILENAME, JSONstringify(OldData))>>,
   <<File(GIST_FILENAME, JSONstringify(OldData)), File("zz-notes.md", NotJson)>>,
   <<File(GIST_FILENAME, NotJson)>>,
   <<File(GIST_FILENAME, NoGroupsKey)>>,
   <<File(GIST_FILENAME, NoSettingsKey)>>}

InitSync ==
  /\ InitLocal
  /\ gists \in {[id \in GistIds |-> IF id = "g1" THEN g ELSE NoGist] :
                  g \in {NoGist} \cup {[exists |-> TRUE, files |-> f] : f \in InitialFiles}}

CallSyncToGist(t, tk, gistId) ==
  Begin(t, SyncToGistFrame(tk, gistId), Event("call syncToGist", tk, gistId))
CallUpdateGist(t, tk, gistId) ==
  Begin(t, UpdateGistFrame(tk, gistId, getStorageData), Event("call updateGist", tk, gistId))
CallSyncFromGist(t, tk, gistId) ==
  Begin(t, SyncFromGistFrame(tk, gistId), Event("call syncFromGist", tk, gistId))
\* await syncToGist(token, gistId); await syncFromGist(token, gistId): the caller of a
\* sync that resolved goes on to fetch the same gist with the same token
ThenSyncFromGist(t) ==
  /\ Settled(t)
  /\ ret[t].kind = "ok"
  /\ log[t][1].ev = "call syncToGist"
  /\ ~Falsy(log[t][1].res)
  /\ \A i \in 1..Len(log[t]) : log[t][i].ev # "call syncFromGist"
  /\ stack' = [stack EXCEPT ![t] = <<SyncFromGistFrame(log[t][1].tok, log[t][1].res)>>]
  /\ ret' = [ret EXCEPT ![t] = NoRet]
  /\ Logged(t, Event("call syncFromGist", log[t][1].tok, log[t][1].res))
  /\ UNCHANGED <<clock, pageSettings, gists, workerVars, restoreVars, storeVars, memVars, isUpdatingToken, timers, listenerVars, before>>

ResumeSync(t) ==
  \/ saveSettings_start(t) \/ saveSettings_read(t) \/ saveSettings_write(t)
  \/ updateGist_start(t)
  \/ \E o \in HttpOutcomes : updateGist_got(t, o)
  \/ \E o \in HttpOutcomes : updateGist_patched(t, o)
  \/ createGist_start(t) \/ createGist_data(t)
  \/ \E o \in PostOutcomes : createGist_posted(t, o)
  \/ createGist_verified(t)
  \/ syncToGist_start(t) \/ syncToGist_data(t) \/ syncToGist_updated(t)
  \/ syncToGist_created(t) \/ syncToGist_settings(t) \/ syncToGist_saved(t)
  \/ syncFromGist_start(t)
  \/ \E o \in HttpOutcomes : syncFromGist_got(t, o)
  \/ syncFromGist_stored(t)

NextSync ==
  \/ \E tk \in Tokens, gistId \in GistIds \cup {Undefined} : CallSyncToGist("t1", tk, gistId)
  \/ \E tk \in Tokens, gistId \in GistIds : CallUpdateGist("t1", tk, gistId)
  \/ \E tk \in Tokens, gistId \in GistIds : CallSyncFromGist("t1", tk, gistId)
  \/ ThenSyncFromGist("t1")
  \/ ResumeSync("t1")
  \/ Settle("t1")

SpecSync == InitSync /\ [][NextSync]_vars

(* ------------------------------------------------------------------ *)
(* Groups and tabs (storage.ts:34-132, 159-248; groups.ts)             *)
(* ------------------------------------------------------------------ *)
Tab(id, url) == [id |-> id, url |-> url]
\* items.filter(keep)
Filter(items, Keep(_)) == SelectSeq(items, Keep)
\* items.findIndex(test), 1-based, 0 for -1
FindIndex(items, Test(_)) ==
  IF \E i \in 1..Len(items) : Test(items[i])
    THEN CHOOSE i \in 1..Len(items) : Test(items[i]) /\ \A j \in 1..(i - 1) : ~Test(items[j])
    ELSE 0
\* items.splice(i, 1)
Splice(items, i) == SubSeq(items, 1, i - 1) \o SubSeq(items, i + 1, Len(items))
\* findGroupById(groups, id), as an index
findGroupById(groups, id) == FindIndex(groups, LAMBDA g : g.id = id)
Ids(items) == {items[i].id : i \in 1..Len(items)}
\* new Map(items.map((x) => [x.id, x])).get(id): the last item of that id
MapGet(items, id) ==
  items[CHOOSE i \in 1..Len(items) :
          items[i].id = id /\ \A j \in (i + 1)..Len(items) : items[j].id # id]

\* name.trim() and name.toLowerCase() on the names that occur
Trim(name) ==
  CASE name = "  " -> ""
    [] name = " work " -> "work"
    [] OTHER -> name
ToLowerCase(name) ==
  CASE name = "Work" -> "work"
    [] name = "Home" -> "home"
    [] name = "Default" -> "default"
    [] OTHER -> name

\* the errors of the store functions
CannotDeleteDefault == [id |-> "CannotDeleteDefault", msg |-> <<"Cannot delete default group">>]
GroupNotFound(groupId) == [id |-> "GroupNotFound", msg |-> <<"Group ", groupId, " not found">>]
InvalidTabIds == [id |-> "InvalidTabIds", msg |-> <<"Invalid tab IDs: ", "ids">>]
MustIncludeAllTabs == [id |-> "MustIncludeAllTabs", msg |-> <<"New order must include all tabs">>]
InvalidGroupIds == [id |-> "InvalidGroupIds", msg |-> <<"Invalid group IDs: ", "ids">>]
MustIncludeAllGroups ==
  [id |-> "MustIncludeAllGroups", msg |-> <<"New order must include all groups">>]
SourceGroupNotFound(groupId) ==
  [id |-> "SourceGroupNotFound", msg |-> <<"Source group ", groupId, " not found">>]
TargetGroupNotFound(groupId) ==
  [id |-> "TargetGroupNotFound", msg |-> <<"Target group ", groupId, " not found">>]
TabNotFound(tabId) ==
  [id |-> "TabNotFound", msg |-> <<"Tab ", tabId, " not found in source group">>]
EmptyGroupName == [id |-> "EmptyGroupName", msg |-> <<"Group name cannot be empty">>]
DuplicateGroupName(name) ==
  [id |-> "DuplicateGroupName", msg |-> <<"Group with name ", name, " already exists">>]

\* what a store function makes of the data it read: it throws, or it saves data and
\* resolves with result; save is false when it resolves without saving
Throws(e) == [data |-> NoDoc, err |-> e, result |-> NoRet, throws |-> TRUE, save |-> FALSE]
Saves(data, result) ==
  [data |-> data, err |-> NoError, result |-> result, throws |-> FALSE, save |-> TRUE]
Resolves(result) ==
  [data |-> NoDoc, err |-> NoError, result |-> result, throws |-> FALSE, save |-> FALSE]

\* (mutant) as initStorage, but the default group is put after the other groups
initStorage_appends(data) ==
  IF \E i \in 1..Len(data.groups) : data.groups[i].id = "default"
    THEN Resolves(Ok("void"))
    ELSE Saves([data EXCEPT !.groups = Append(@, createDefaultGroup)], Ok("void"))

\* initStorage (storage.ts:34-42)
initStorage(data) ==
  IF \E i \in 1..Len(data.groups) : data.groups[i].id = "default"
    THEN Resolves(Ok("void"))
    ELSE Saves([data EXCEPT !.groups = <<createDefaultGroup>> \o @], Ok("void"))

\* saveGroup (storage.ts:49-60)
saveGroup(data, group) ==
  LET index == findGroupById(data.groups, group.id)
      stamped == [group EXCEPT !.updatedAt = clock]
  IN IF index # 0
       THEN Saves([data EXCEPT !.groups[index] = stamped], Ok("void"))
       ELSE Saves([data EXCEPT !.groups = Append(@, stamped)], Ok("void"))

\* (mutant) as deleteGroup, but the default group is deleted like any other
deleteGroup_unprotected(data, groupId) ==
  Saves([data EXCEPT !.groups = Filter(@, LAMBDA g : g.id # groupId)], Ok("void"))

\* deleteGroup (storage.ts:62-70)
deleteGroup(data, groupId) ==
  IF groupId = "default"
    THEN Throws(CannotDeleteDefault)
    ELSE Saves([data EXCEPT !.groups = Filter(@, LAMBDA g : g.id # groupId)], Ok("void"))

\* addTabsToGroup (storage.ts:72-88)
addTabsToGroup(data, groupId, tabs) ==
  LET i == findGroupById(data.groups, groupId)
  IN IF i = 0 THEN Throws(GroupNotFound(groupId))
     ELSE LET existingUrls == {data.groups[i].tabs[k].url : k \in 1..Len(data.groups[i].tabs)}
              newTabs == Filter(tabs, LAMBDA t : t.url \notin existingUrls)
          IN Saves([data EXCEPT !.groups[i].tabs = @ \o newTabs,
                                !.groups[i].updatedAt = clock], Ok("void"))

\* removeTabFromGroup (storage.ts:90-102)
removeTabFromGroup(data, groupId, tabId) ==
  LET i == findGroupById(data.groups, groupId)
  IN IF i = 0 THEN Throws(GroupNotFound(groupId))
     ELSE Saves([data EXCEPT !.groups[i].tabs = Filter(@, LAMBDA t : t.id # tabId),
                             !.groups[i].updatedAt = clock], Ok("void"))

\* (mutant) as reorderTabsInGroup, but the tabs are left in their order
reorderTabsInGroup_keepsOrder(data, groupId, newOrder) ==
  LET i == findGroupById(data.groups, groupId)
  IN IF i = 0 THEN Throws(GroupNotFound(groupId))
     ELSE IF \E k \in 1..Len(newOrder) : newOrder[k] \notin Ids(data.groups[i].tabs)
       THEN Throws(InvalidTabIds)
     ELSE IF Len(newOrder) # Len(data.groups[i].tabs) THEN Throws(MustIncludeAllTabs)
     ELSE Saves([data EXCEPT !.groups[i].updatedAt = clock], Ok("void"))

\* reorderTabsInGroup (storage.ts:104-132)
reorderTabsInGroup(data, groupId, newOrder) ==
  LET i == findGroupById(data.groups, groupId)
  IN IF i = 0 THEN Throws(GroupNotFound(groupId))
     ELSE IF \E k \in 1..Len(newOrder) : newOrder[k] \notin Ids(data.groups[i].tabs)
       THEN Throws(InvalidTabIds)
     ELSE IF Len(newOrder) # Len(data.groups[i].tabs) THEN Throws(MustIncludeAllTabs)
     ELSE Saves([data EXCEPT
                   !.groups[i].tabs = [k \in 1..Len(newOrder) |-> MapGet(@, newOrder[k])],
                   !.groups[i].updatedAt = clock], Ok("void"))

\* reorderGroups (storage.ts:159-181)
reorderGroups(data, newOrder) ==
  IF \E k \in 1..Len(newOrder) : newOrder[k] \notin Ids(data.groups)
    THEN Throws(InvalidGroupIds)
  ELSE IF Len(newOrder) # Len(data.groups) THEN Throws(MustIncludeAllGroups)
  ELSE Saves([data EXCEPT !.groups = [k \in 1..Len(newOrder) |-> MapGet(@, newOrder[k])]],
             Ok("void"))

\* moveTabBetweenGroups past its first check (storage.ts:193-228)
moveTabBetweenGroups(data, tabId, fromGroupId, toGroupId) ==
  LET f == findGroupById(data.groups, fromGroupId)
      g == findGroupById(data.groups, toGroupId)
  IN IF f = 0 THEN Throws(SourceGroupNotFound(fromGroupId))
     ELSE IF g = 0 THEN Throws(TargetGroupNotFound(toGroupId))
     ELSE LET tabIndex == FindIndex(data.groups[f].tabs, LAMBDA t : t.id = tabId)
          IN IF tabIndex = 0 THEN Throws(TabNotFound(tabId))
             ELSE LET tab == data.groups[f].tabs[tabIndex]
                      existingTabIndex == FindIndex(data.groups[g].tabs, LAMBDA t : t.url = tab.url)
                      kept == IF existingTabIndex # 0
                                THEN Splice(data.groups[g].tabs, existingTabIndex)
                                ELSE data.groups[g].tabs
                  IN Saves([data EXCEPT !.groups[f].tabs = Splice(@, tabIndex),
                                        !.groups[f].updatedAt = clock,
                                        !.groups[g].tabs = Append(kept, tab),
                                        !.groups[g].updatedAt = clock], Ok("void"))

\* createNewGroup (groups.ts:23-33) with the id that generateGroupId gave
createNewGroup(id, name) ==
  [id |-> id, name |-> name, tabs |-> <<>>, createdAt |-> clock, updatedAt |-> clock]

\* (mutant) as createGroup, but names are compared as they are written
createGroup_exactNames(data, name, id) ==
  IF \E i \in 1..Len(data.groups) : data.groups[i].name = name
    THEN Throws(DuplicateGroupName(name))
    ELSE Saves([data EXCEPT !.groups = Append(@, createNewGroup(id, Trim(name)))],
               OkGroup(createNewGroup(id, Trim(name))))

\* createGroup past its first check (storage.ts:235-247)
createGroup(data, name, id) ==
  IF \E i \in 1..Len(data.groups) :
       ToLowerCase(Trim(data.groups[i].name)) = ToLowerCase(Trim(name))
    THEN Throws(DuplicateGroupName(name))
    ELSE Saves([data EXCEPT !.groups = Append(@, createNewGroup(id, Trim(name)))],
               OkGroup(createNewGroup(id, Trim(name))))

(* ------------------------------------------------------------------ *)
(* The store functions as calls: read, compute, write                  *)
(* ------------------------------------------------------------------ *)
MaxClock == 1
GroupIdPool == {"group_1", "group_2"}
AllGroupIds == {"default"} \cup GroupIdPool
TabIds == {"a", "b", "c"}
Urls == {"u", "v"}
NameInputs == {"", "  ", "Work", " work ", "Home"}

\* the arguments of a call of a store function
Args(groupId, toGroupId, tabId, newOrder, tabs, name, group, settings) ==
  [name |-> name, tabs |-> tabs, settings |-> settings, group |-> group,
   groupId |-> groupId, tabId |-> tabId, newOrder |-> newOrder, toGroupId |-> toGroupId]
StoreFrame(fn, args) == Frame(fn, "start", args)
\* the functions that begin with const data = await getStorageData()
ReadFirstOps ==
  {"initStorage", "saveGroup", "deleteGroup", "addTabsToGroup", "removeTabFromGroup",
   "reorderTabsInGroup", "reorderGroups"}
StoreOps == ReadFirstOps \cup {"moveTabBetweenGroups", "createGroup"}

\* what the function fn makes of the data it read
StoreResult(fn, data, a) ==
  CASE fn = "initStorage" -> initStorage(data)
    [] fn = "saveGroup" -> saveGroup(data, a.group)
    [] fn = "deleteGroup" -> deleteGroup(data, a.groupId)
    [] fn = "addTabsToGroup" -> addTabsToGroup(data, a.groupId, a.tabs)
    [] fn = "removeTabFromGroup" -> removeTabFromGroup(data, a.groupId, a.tabId)
    [] fn = "reorderTabsInGroup" -> reorderTabsInGroup(data, a.groupId, a.newOrder)
    [] fn = "reorderGroups" -> reorderGroups(data, a.newOrder)
    [] fn = "moveTabBetweenGroups" ->
         moveTabBetweenGroups(data, a.tabId, a.groupId, a.toGroupId)
    [] fn = "createGroup" -> createGroup(data, a.name, a.group.id)

\* const data = await getStorageData(): the read is issued
storeOp_start(t) ==
  /\ ~Idle(t)
  /\ Top(t).fn \in ReadFirstOps
  /\ Top(t).pc = "start"
  /\ Goto(t, AtPc(t, "read_wait"))
  /\ UNCHANGED <<clock, pageSettings, gists, workerVars, restoreVars, storeVars, memVars, isUpdatingToken, timers, listenerVars, ret, log, before>>

\* (mutant) as moveTabBetweenGroups_start, but a move within one group goes on to read
moveTabBetweenGroups_start_reads(t) ==
  /\ At(t, "moveTabBetweenGroups", "start")
  /\ Goto(t, AtPc(t, "read_wait"))
  /\ UNCHANGED ret
  /\ UNCHANGED <<clock, pageSettings, gists, workerVars, restoreVars, storeVars, memVars, isUpdatingToken, timers, listenerVars, log, before>>

\* if (fromGroupId === toGroupId) return; otherwise the read is issued
moveTabBetweenGroups_start(t) ==
  /\ At(t, "moveTabBetweenGroups", "start")
  /\ IF Top(t).loc.groupId = Top(t).loc.toGroupId
       THEN Return(t, Ok("void"))
       ELSE Goto(t, AtPc(t, "read_wait")) /\ UNCHANGED ret
  /\ UNCHANGED <<clock, pageSettings, gists, workerVars, restoreVars, storeVars, memVars, isUpdatingToken, timers, listenerVars, log, before>>

\* if (!name || name.trim() === "") throw; otherwise the read is issued
createGroup_start(t) ==
  /\ At(t, "createGroup", "start")
  /\ IF Top(t).loc.name = "" \/ Trim(Top(t).loc.name) = ""
       THEN Return(t, Err(EmptyGroupName))
       ELSE Goto(t, AtPc(t, "read_wait")) /\ UNCHANGED ret
  /\ UNCHANGED <<clock, pageSettings, gists, workerVars, restoreVars, storeVars, memVars, isUpdatingToken, timers, listenerVars, log, before>>

\* the read completes and the function runs up to its await saveStorageData(data)
storeOp_read(t) ==
  /\ ~Idle(t)
  /\ Top(t).fn \in StoreOps
  /\ Top(t).pc = "read_wait"
  /\ NoneReady
  /\ LET r == StoreResult(Top(t).fn, getStorageData, Top(t).loc)
     IN IF r.throws THEN Return(t, Err(r.err))
        ELSE IF r.save
          THEN /\ Goto(t, Frame(Top(t).fn, "write_wait", [data |-> r.data, result |-> r.result]))
               /\ UNCHANGED ret
          ELSE Return(t, r.result)
  /\ Logged(t, Event("read", "", ""))
  /\ UNCHANGED <<clock, pageSettings, gists, workerVars, restoreVars, storeVars, memVars, isUpdatingToken, timers, listenerVars, before>>

\* the write lands in the store and the function resolves
storeOp_write(t) ==
  /\ ~Idle(t)
  /\ Top(t).fn \in StoreOps
  /\ Top(t).pc = "write_wait"
  /\ NoneReady
  /\ doc' = saveStorageData(Top(t).loc.data)
  /\ Changed(Top(t).fn, doc, doc')
  /\ Return(t, Top(t).loc.result)
  /\ Logged(t, Event("write", "", ""))
  /\ UNCHANGED <<clock, pageSettings, gists, listening, restoreVars, verifierSlot, memVars, isUpdatingToken, timers, listenerVars, before>>

\* time passes; a call reads the clock only in the step after its read, so the time that
\* passes during a call is time that passed before it
Tick ==
  /\ clock < MaxClock
  /\ \A t \in Tasks : Idle(t) /\ ~Settled(t)
  /\ clock' = clock + 1
  /\ UNCHANGED <<pageSettings, gists, workerVars, restoreVars, storeVars, memVars, isUpdatingToken, timers, listenerVars, stack, ret, log, before>>

\* the record of a call of a store function: its name and its arguments
CallEvent(fn, args) == [tok |-> "", fn |-> fn, ev |-> "call " \o fn, res |-> "", args |-> args]
BeginStore(t, fn, args) == Begin(t, StoreFrame(fn, args), CallEvent(fn, args))
NoArgs == Args("", "", "", <<>>, <<>>, "", NoGroup, DefaultSettings)

\* ids the store holds or a call in flight was given; generated ids do not repeat
UsedGroupIds ==
  Ids(getStorageData.groups)
    \cup {log[t][1].args.group.id : t \in {u \in Tasks : log[u] # <<>>}}
UsedTabIds ==
  UNION {Ids(getStorageData.groups[i].tabs) : i \in 1..Len(getStorageData.groups)}
    \cup UNION {Ids(log[t][1].args.tabs) : t \in {u \in Tasks : log[u] # <<>>}}
StoredGroupIds == Ids(getStorageData.groups)
GroupIdSeq == <<"group_1", "group_2">>
TabIdSeq == <<"a", "b", "c">>
\* the first n ids of pool that are not in used, in the order of pool
RECURSIVE Fresh(_, _, _)
Fresh(pool, used, n) ==
  IF n = 0 \/ pool = <<>> THEN <<>>
  ELSE IF Head(pool) \in used THEN Fresh(Tail(pool), used, n)
  ELSE <<Head(pool)>> \o Fresh(Tail(pool), used, n - 1)

MaxBatch == 2
MaxOrder == 2
\* the ids a new order of tabs is made of
OrderIds == {"a", "b"}
\* a group id that no group has
UnknownGroupId == "group_9"
Sequences(S, n) == UNION {[1..k -> S] : k \in 0..n}

CallInitStorage(t) == BeginStore(t, "initStorage", NoArgs)
\* the group at position i as the page holds it, renamed
CallSaveGroup(t, i, name) ==
  /\ i \in 1..Len(getStorageData.groups)
  /\ BeginStore(t, "saveGroup",
                [NoArgs EXCEPT !.group = [getStorageData.groups[i] EXCEPT !.name = name]])
CallDeleteGroup(t, groupId) == BeginStore(t, "deleteGroup", [NoArgs EXCEPT !.groupId = groupId])
\* tabs freshly made from browser tabs with the urls given
CallAddTabsToGroup(t, groupId, urls) ==
  LET ids == Fresh(TabIdSeq, UsedTabIds, Len(urls))
  IN /\ Len(ids) = Len(urls)
     /\ BeginStore(t, "addTabsToGroup",
                   [NoArgs EXCEPT !.groupId = groupId,
                                  !.tabs = [k \in 1..Len(urls) |-> Tab(ids[k], urls[k])]])
CallRemoveTabFromGroup(t, groupId, tabId) ==
  BeginStore(t, "removeTabFromGroup", [NoArgs EXCEPT !.groupId = groupId, !.tabId = tabId])
CallReorderTabsInGroup(t, groupId, newOrder) ==
  BeginStore(t, "reorderTabsInGroup", [NoArgs EXCEPT !.groupId = groupId, !.newOrder = newOrder])
CallReorderGroups(t, newOrder) ==
  BeginStore(t, "reorderGroups", [NoArgs EXCEPT !.newOrder = newOrder])
CallMoveTabBetweenGroups(t, tabId, fromGroupId, toGroupId) ==
  BeginStore(t, "moveTabBetweenGroups",
             [NoArgs EXCEPT !.tabId = tabId, !.groupId = fromGroupId, !.toGroupId = toGroupId])
\* the id is the one generateGroupId will produce
CallCreateGroup(t, name) ==
  LET ids == Fresh(GroupIdSeq, UsedGroupIds, 1)
  IN /\ ids # <<>>
     /\ BeginStore(t, "createGroup",
                   [NoArgs EXCEPT !.name = name, !.group = [NoGroup EXCEPT !.id = ids[1]]])
\* saveSettings({ ...settings, closeAndSave }) from the settings page
CallSaveSettings(t, closeAndSave) ==
  LET s == [getSettings EXCEPT !.closeAndSave = closeAndSave]
  IN Begin(t, SaveSettingsFrame(s), CallEvent("saveSettings", [NoArgs EXCEPT !.settings = s]))

ResumeGroups(t) ==
  \/ saveSettings_start(t) \/ saveSettings_read(t) \/ saveSettings_write(t)
  \/ storeOp_start(t) \/ createGroup_start(t)
  \/ storeOp_read(t) \/ storeOp_write(t)

ResumeTabs(t) ==
  \/ storeOp_start(t) \/ moveTabBetweenGroups_start(t)
  \/ storeOp_read(t) \/ storeOp_write(t)

\* the calls that concern whole groups
CallsGroups(t) ==
  \/ CallInitStorage(t)
  \/ \E i \in 1..3, name \in {"Home"} : CallSaveGroup(t, i, name)
  \/ \E g \in AllGroupIds : CallDeleteGroup(t, g)
  \/ \E o \in Sequences(AllGroupIds, MaxOrder) : CallReorderGroups(t, o)
  \/ \E name \in NameInputs : CallCreateGroup(t, name)
  \/ \E b \in BOOLEAN : CallSaveSettings(t, b)

\* the calls that concern the tabs of a group
CallsTabs(t) ==
  \/ \E g \in StoredGroupIds, urls \in Sequences(Urls, MaxBatch) \ {<<>>} :
       CallAddTabsToGroup(t, g, urls)
  \/ CallAddTabsToGroup(t, UnknownGroupId, <<"u">>)
  \/ \E g \in StoredGroupIds, o \in Sequences(OrderIds, MaxOrder) : CallReorderTabsInGroup(t, g, o)
  \/ CallReorderTabsInGroup(t, UnknownGroupId, <<>>)
  \/ \E tabId \in TabIds, f \in StoredGroupIds, g \in StoredGroupIds :
       CallMoveTabBetweenGroups(t, tabId, f, g)
  \/ \E f \in {"default", UnknownGroupId}, g \in {"default", UnknownGroupId} :
       (f = UnknownGroupId \/ g = UnknownGroupId) /\ CallMoveTabBetweenGroups(t, "a", f, g)

\* the store as the extension finds it: empty, or holding the default group
InitStore ==
  /\ clock = 0
  /\ doc \in {NoDoc, [present |-> TRUE, groups |-> <<createDefaultGroup>>, settings |-> DefaultSettings]}
  /\ InitProcess
  /\ gists = [id \in GistIds |-> NoGist]

\* the store after initStorage and createGroup("Work"), with no tab saved yet
InitTabs ==
  /\ clock = 0
  /\ doc = [present |-> TRUE, groups |-> <<createDefaultGroup, createNewGroup("group_1", "Work")>>,
            settings |-> DefaultSettings]
  /\ InitProcess
  /\ gists = [id \in GistIds |-> NoGist]

NextStore ==
  \/ CallsGroups("t1")
  \/ ResumeGroups("t1")
  \/ Settle("t1")
  \/ Tick

SpecStore == InitStore /\ [][NextStore]_vars

NextTabs ==
  \/ CallsTabs("t1")
  \/ ResumeTabs("t1")
  \/ Settle("t1")
  \/ Tick

SpecTabs == InitTabs /\ [][NextTabs]_vars

(* Two calls of one page in flight at once, over a store that holds one tab. *)
InitRace ==
  /\ clock = 0
  /\ doc = [present |-> TRUE,
            groups |-> <<[createDefaultGroup EXCEPT !.tabs = <<Tab("a", "u")>>]>>,
            settings |-> DefaultSettings]
  /\ InitProcess
  /\ gists = [id \in GistIds |-> NoGist]

CallsRace(t) ==
  \/ CallAddTabsToGroup(t, "default", <<"v">>)
  \/ CallCreateGroup(t, "Work")
  \/ CallSaveSettings(t, TRUE)
  \/ CallRemoveTabFromGroup(t, "default", "a")

\* await Promise.all([x, y]): the call that settles first has its result taken while the
\* other runs on, and the page goes on when the second has settled
SettleFirst(t, u) ==
  /\ Settled(t)
  /\ ~Idle(u)
  /\ ret' = [ret EXCEPT ![t] = NoRet]
  /\ UNCHANGED <<clock, pageSettings, gists, workerVars, restoreVars, storeVars, memVars, isUpdatingToken, timers, listenerVars, stack, log, before>>
SettleLast(t, u) ==
  /\ Settled(t)
  /\ Idle(u)
  /\ ret' = [ret EXCEPT ![t] = NoRet]
  /\ log' = [log EXCEPT ![t] = <<>>, ![u] = <<>>]
  /\ before' = [before EXCEPT ![t] = NoSnapshot, ![u] = NoSnapshot]
  /\ UNCHANGED <<clock, pageSettings, gists, workerVars, restoreVars, storeVars, memVars, isUpdatingToken, timers, listenerVars, stack>>

\* the second call starts while the first is in flight
NextRace ==
  \/ Idle("t2") /\ log["t2"] = <<>> /\ CallsRace("t1")
  \/ ~Idle("t1") /\ CallsRace("t2")
  \/ \E t \in {"t1", "t2"} : ResumeGroups(t)
  \/ \E t \in {"t1", "t2"} : SettleFirst(t, CHOOSE u \in {"t1", "t2"} : u # t)
  \/ \E t \in {"t1", "t2"} : SettleLast(t, CHOOSE u \in {"t1", "t2"} : u # t)

SpecRace == InitRace /\ [][NextRace]_vars

(* ------------------------------------------------------------------ *)
(* syncFromGistWithRetry (storage.ts:718-722): syncFromGist run as the  *)
(* operation of withRetryOn401                                         *)
(* ------------------------------------------------------------------ *)
\* withRetryOn401(async (token) => syncFromGist(token, gistId)): the frame of the wrapper
\* with the gist id its operation closes over
SyncRetryFrame(gistId) ==
  Frame("withRetryOn401", "loop",
        [gistId |-> gistId, currentToken |-> token, retryCount |-> 0,
         maxRetries |-> DEFAULT_MAX_RETRIES, error |-> NoError])

CallSyncFromGistWithRetry(t, gistId) ==
  Begin(t, SyncRetryFrame(gistId), Event("call syncFromGistWithRetry", token, gistId))

\* fn(currentToken): syncFromGist(token, gistId) is entered
syncFromGistWithRetry_op(t) ==
  /\ At(t, "withRetryOn401", "op_wait")
  /\ "gistId" \in DOMAIN Top(t).loc
  /\ Call(t, AtPc(t, "op_called"), SyncFromGistFrame(Top(t).loc.currentToken, Top(t).loc.gistId))
  /\ UNCHANGED <<clock, pageSettings, gists, workerVars, restoreVars, storeVars, memVars, isUpdatingToken, timers, listenerVars, ret, log, before>>

\* syncFromGist settled: its result is returned, or its error is caught by the wrapper
syncFromGistWithRetry_settled(t) ==
  /\ At(t, "withRetryOn401", "op_called")
  /\ IF ret[t].kind = "ok"
       THEN /\ Return(t, ret[t])
            /\ Logged(t, Event("opResolved", Top(t).loc.currentToken, ret[t].val))
       ELSE /\ withRetryOn401_catch(t, ret[t].err)
            /\ Logged(t, Event("opRejected", Top(t).loc.currentToken, ret[t].err.id))
  /\ UNCHANGED <<clock, pageSettings, gists, workerVars, restoreVars, storeVars, memVars, isUpdatingToken, timers, listenerVars, before>>

ResumeSession(t) ==
  \/ saveSettings_start(t) \/ saveSettings_read(t) \/ saveSettings_write(t)
  \/ signOut_start(t) \/ signOut_settings(t) \/ signOut_saved(t) \/ signOut_finish(t)
  \/ markUserAsSignedIn_start(t) \/ markUserAsSignedIn_settings(t)
  \/ markUserAsSignedIn_saved(t) \/ markUserAsSignedIn_finish(t)
  \/ authenticateWithGitHub_start(t) \/ authenticateWithGitHub_stored(t)
  \/ \E e \in FlowFailures : authenticateWithGitHub_callbackFails(t, e)
  \/ authenticateWithGitHub_callbackCode(t) \/ authenticateWithGitHub_verifier(t)
  \/ \E e \in TokenFailures : authenticateWithGitHub_tokenFails(t, e)
  \/ \E tk \in Tokens : authenticateWithGitHub_token(t, tk)
  \/ signIn_start(t) \/ signIn_settings(t) \/ signIn_exchanged(t)
  \/ \E e \in UserInfoFailures : signIn_userFails(t, e)
  \/ \E l \in Logins : signIn_user(t, l)
  \/ signIn_marked(t)
  \/ ensureAuthenticated_start(t)
  \/ withRetryOn401_loop(t) \/ withRetryOn401_ensured(t)
  \/ syncFromGistWithRetry_op(t) \/ syncFromGistWithRetry_settled(t)
  \/ withRetryOn401_signedOut(t) \/ withRetryOn401_settings(t) \/ withRetryOn401_signedIn(t)
  \/ syncFromGist_start(t)
  \/ \E o \in HttpOutcomes : syncFromGist_got(t, o)
  \/ syncFromGist_stored(t)

NextSession ==
  \/ CallSignIn("t1")
  \/ \E gistId \in GistIds : CallSyncFromGistWithRetry("t1", gistId)
  \/ ResumeSession("t1")
  \/ Settle("t1")
  \/ TimerFire

SpecSession == InitSync /\ [][NextSession]_vars

(* ------------------------------------------------------------------ *)
(* The options page (options/App.svelte:24-127)                         *)
(* ------------------------------------------------------------------ *)
\* settings = await getSettings()
loadSettings ==
  /\ NoneReady
  /\ pageSettings # getSettings
  /\ pageSettings' = getSettings
  /\ UNCHANGED <<gists, clock, workerVars, restoreVars, storeVars, memVars, isUpdatingToken, timers, listenerVars, stack, ret, log, before>>

\* await saveSettings(settings) with the object of the page after the handler changed it;
\* the first handler run after a signOut has settled goes on with the record of that signOut
PageSaves(t, handler, changed) ==
  /\ Idle(t)
  /\ \A u \in Tasks \ {t} : ~IsReady(u)
  /\ Settled(t) => log[t][Len(log[t])] = Event("notify", Undefined, "") /\ log[t][1].ev = "call signOut"
  /\ pageSettings' = changed
  /\ stack' = [stack EXCEPT ![t] = <<SaveSettingsFrame(changed)>>]
  /\ ret' = [ret EXCEPT ![t] = NoRet]
  /\ log' = [log EXCEPT ![t] = log[t] \o <<Event(handler, "", "")>>]
  /\ before' = [before EXCEPT ![t] = IF Settled(t) THEN before[t] ELSE Snapshot(AuthStateNow, doc)]
  /\ UNCHANGED <<gists, clock, workerVars, restoreVars, storeVars, memVars, isUpdatingToken, timers, listenerVars>>

\* settings.closeAndSave = checked; await saveSettings(settings)
handleCloseAndSaveChange(t, checked) ==
  PageSaves(t, "call handleCloseAndSaveChange", [pageSettings EXCEPT !.closeAndSave = checked])

\* settings.gistId = gistIdInput.trim() || undefined; await saveSettings(settings)
handleSaveGistId(t, gistIdInput) ==
  PageSaves(t, "call handleSaveGistId",
            [pageSettings EXCEPT !.gistId = IF gistIdInput = "" THEN Undefined ELSE gistIdInput])

ResumePage(t) ==
  \/ saveSettings_start(t) \/ saveSettings_read(t) \/ saveSettings_write(t)
  \/ signOut_start(t) \/ signOut_settings(t) \/ signOut_saved(t) \/ signOut_finish(t)
  \/ markUserAsSignedIn_start(t) \/ markUserAsSignedIn_settings(t)
  \/ markUserAsSignedIn_saved(t) \/ markUserAsSignedIn_finish(t)
  \/ authenticateWithGitHub_start(t) \/ authenticateWithGitHub_stored(t)
  \/ \E e \in FlowFailures : authenticateWithGitHub_callbackFails(t, e)
  \/ authenticateWithGitHub_callbackCode(t) \/ authenticateWithGitHub_verifier(t)
  \/ \E e \in TokenFailures : authenticateWithGitHub_tokenFails(t, e)
  \/ \E tk \in Tokens : authenticateWithGitHub_token(t, tk)
  \/ signIn_start(t) \/ signIn_settings(t) \/ signIn_exchanged(t)
  \/ \E e \in UserInfoFailures : signIn_userFails(t, e)
  \/ \E l \in Logins : signIn_user(t, l)
  \/ signIn_marked(t)

NextPage ==
  \/ CallSignIn("t1")
  \/ CallSignOut("t1")
  \/ loadSettings
  \/ \E checked \in BOOLEAN : handleCloseAndSaveChange("t1", checked)
  \/ \E gistIdInput \in GistIds \cup {""} : handleSaveGistId("t1", gistIdInput)
  \/ ResumePage("t1")
  \/ Settle("t1")
  \/ TimerFire

SpecPage == Init /\ [][NextPage]_vars

(* ------------------------------------------------------------------ *)
(* Reading the record of the current top-level call                    *)
(* ------------------------------------------------------------------ *)
Main == "t1"
L == log[Main]
Was == before[Main]
IsCall(name) == L # <<>> /\ L[1].ev = name
Idx(ev) == {i \in 1..Len(L) : L[i].ev = ev}
Count(ev) == Cardinality(Idx(ev))
First(S) == CHOOSE i \in S : \A j \in S : i <= j
Last(S) == CHOOSE i \in S : \A j \in S : j <= i
OpOutcomes == Idx("opRejected") \cup Idx("opResolved")
AllErrors ==
  OpErrors \cup FlowFailures \cup TokenFailures \cup UserInfoFailures \cup
  {VerifierMissing, AuthRequiredError, ClientIdMissingError, ClientSecretMissingError,
   NoTokenAfterLoginError, RetriesExceededError}
ErrorById(id) == CHOOSE e \in AllErrors : e.id = id
HasCredentials(d) ==
  d.present /\ ~Falsy(d.settings.githubClientId) /\ ~Falsy(d.settings.githubClientSecret)
WasSignedIn == Was.auth.isSignedIn /\ Was.auth.token \in Tokens

(* ------------------------------------------------------------------ *)
(* C1                                                                  *)
(* ------------------------------------------------------------------ *)
\* The case of C1: withRetryOn401(op, 1) called while signed in, settled, the first
\* invocation of op rejected with a 401-pattern error, client id and secret in Settings,
\* no failure of the credential exchange or of the profile fetch, and no second rejection.
C1_Case ==
  /\ Settled(Main)
  /\ IsCall("call withRetryOn401")
  /\ L[1].res = ToString(DEFAULT_MAX_RETRIES)
  /\ WasSignedIn
  /\ HasCredentials(Was.doc)
  /\ OpOutcomes # {}
  /\ L[First(OpOutcomes)].ev = "opRejected"
  /\ is401Error(ErrorById(L[First(OpOutcomes)].res).msg)
  /\ Count("opRejected") = 1
  /\ Count("exchangeFailed") = 0
  /\ Count("getUserInfoFailed") = 0

\* C1: in that case the wrapper resolves with the result of the second invocation, op was
\* invoked exactly twice, first with the token held at the call and then with the token
\* the exchange returned, exactly one signOut was followed by exactly one signIn, and the
\* process is SignedIn with the new token, which is the persisted Settings.oauthToken.
C1_RetryOnceSucceeds ==
  C1_Case =>
    /\ ret[Main].kind = "ok"
    /\ Count("opResolved") = 1
    /\ Count("op") = 2
    /\ Count("exchangeOk") = 1
    /\ LET T1 == Was.auth.token
           T2 == L[First(Idx("exchangeOk"))].tok
       IN /\ L[First(Idx("op"))].tok = T1
          /\ L[Last(Idx("op"))].tok = T2
          /\ L[Last(Idx("opResolved"))].tok = T2
          /\ ret[Main].val = L[Last(Idx("opResolved"))].res
          /\ isSignedIn /\ token = T2
          /\ doc.present /\ doc.settings.oauthToken = T2
    /\ Count("signOut") = 1
    /\ Count("signIn") = 1
    /\ First(Idx("signOut")) < First(Idx("signIn"))
    /\ First(Idx("op")) < First(Idx("signOut"))
    /\ First(Idx("signIn")) < Last(Idx("op"))

C1_Witness ==
  /\ C1_Case
  /\ Was.auth.token = "T1"
  /\ token = "T2"
  /\ ret[Main] = Ok("R2")

(* ------------------------------------------------------------------ *)
(* C2                                                                  *)
(* ------------------------------------------------------------------ *)
\* A settled withRetryOn401 call whose last invocation of op rejected with an error
\* outside the 401 pattern.
C2_Case ==
  /\ Settled(Main)
  /\ IsCall("call withRetryOn401")
  /\ OpOutcomes # {}
  /\ L[Last(OpOutcomes)].ev = "opRejected"
  /\ ~is401Error(ErrorById(L[Last(OpOutcomes)].res).msg)

MaxRetriesOfCall == CHOOSE n \in 0..(MaxRetriesBound + 1) : L[1].res = ToString(n)
ContainsMsg(msg, part) ==
  \E i \in 1..(Len(msg) + 1) :
    i + Len(part) - 1 <= Len(msg) /\ SubSeq(msg, i, i + Len(part) - 1) = part

\* A settled withRetryOn401 call whose last invocation of op rejected with a 401-pattern
\* error while retries remained (fewer successful re-authentications than maxRetries):
\* no later invocation means the re-authentication did not complete.
C3_Case ==
  /\ Settled(Main)
  /\ IsCall("call withRetryOn401")
  /\ OpOutcomes # {}
  /\ L[Last(OpOutcomes)].ev = "opRejected"
  /\ is401Error(ErrorById(L[Last(OpOutcomes)].res).msg)
  /\ Count("signInResolved") < MaxRetriesOfCall

C3_WitnessNoCredentials ==
  /\ C3_Case
  /\ ~HasCredentials(doc)
  /\ L[Last(OpOutcomes)].res = OpUnauthorized.id

(* ------------------------------------------------------------------ *)
(* C4                                                                  *)
(* ------------------------------------------------------------------ *)
\* C4: a withRetryOn401 call made while no token is held in memory never invokes op,
\* never starts a credential exchange or a signIn, never changes the stored document, and
\* settles rejected with the authentication-required error.
C4_NoTokenFailsOutright ==
  (IsCall("call withRetryOn401") /\ Falsy(Was.auth.token)) =>
    /\ Count("op") = 0
    /\ Count("exchange") = 0
    /\ Count("signIn") = 0
    /\ Count("signOut") = 0
    /\ Count("testGitHubToken") = 0
    /\ doc = Was.doc
    /\ (Settled(Main) => ret[Main] = Err(AuthRequiredError))

C4_Witness ==
  /\ IsCall("call withRetryOn401")
  /\ Falsy(Was.auth.token)
  /\ Settled(Main)
  /\ doc.present /\ doc.settings.oauthToken = "T1"
  /\ HasCredentials(doc)

(* ------------------------------------------------------------------ *)
(* C5                                                                  *)
(* ------------------------------------------------------------------ *)
\* C5: at every moment of a call withRetryOn401(op, n), op has been invoked at most n + 1
\* times and signIn called at most n times (and so has signOut, and at most n
\* credential exchanges were started).
C5_BoundedRetries ==
  IsCall("call withRetryOn401") =>
    /\ Count("op") <= MaxRetriesOfCall + 1
    /\ Count("signIn") <= MaxRetriesOfCall
    /\ Count("signOut") <= MaxRetriesOfCall
    /\ Count("exchange") <= MaxRetriesOfCall

C5_Witness ==
  /\ Settled(Main)
  /\ IsCall("call withRetryOn401")
  /\ MaxRetriesOfCall = DEFAULT_MAX_RETRIES
  /\ Count("op") = 2
  /\ Count("signIn") = 1
  /\ ret[Main].kind = "err"

(* ------------------------------------------------------------------ *)
(* C6                                                                  *)
(* ------------------------------------------------------------------ *)
\* The moment a signIn resolves: its resolution is the last thing recorded.
SignInJustResolved == L # <<>> /\ L[Len(L)].ev = "signInResolved"
ExchangedToken == L[Last(Idx("exchangeOk"))].tok
FetchedLogin == L[Last(Idx("getUserInfoOk"))].res
SignedInState(tok, l) ==
  [login |-> l, isSignedIn |-> TRUE, userInfo |-> Profile(l), token |-> tok]

\* C6: when a signIn resolves, called from SignedOut or from SignedIn, on its own or by
\* withRetryOn401, the credential exchange and the profile fetch succeeded with a token T
\* and a login U, the in-memory state is SignedIn with T and U, the stored
\* Settings.oauthToken is T, and every registered listener was last invoked with that state.
C6_SignInEstablishesState ==
  SignInJustResolved =>
    /\ Idx("exchangeOk") # {} /\ Idx("getUserInfoOk") # {}
    /\ HasCredentials(doc)
    /\ AuthStateNow = SignedInState(ExchangedToken, FetchedLogin)
    /\ doc.present /\ doc.settings.oauthToken = ExchangedToken
    /\ \A l \in authStateListeners : heard[l] = <<SignedInState(ExchangedToken, FetchedLogin)>>
    /\ Idx("notify") # {} /\ L[Last(Idx("notify"))].tok = ExchangedToken
    /\ (IsCall("call signIn") => Settled(Main) /\ ret[Main] = Ok("true"))

C6_Witness ==
  /\ SignInJustResolved
  /\ IsCall("call signIn")
  /\ Was.auth.isSignedIn /\ Was.auth.token = "T1" /\ Was.doc.settings.oauthToken = "T1"
  /\ token = "T2"
  /\ authStateListeners = ListenerIds

C6_WitnessFromSignedOut ==
  /\ SignInJustResolved
  /\ IsCall("call signIn")
  /\ ~Was.auth.isSignedIn /\ Was.doc.settings.oauthToken = Absent
  /\ authStateListeners # {}

(* ------------------------------------------------------------------ *)
(* C7                                                                  *)
(* ------------------------------------------------------------------ *)
ExchangeFailures == FlowFailures \cup TokenFailures \cup {VerifierMissing}
SignInJustRejected == L # <<>> /\ L[Len(L)].ev = "signInRejected"
RejectedBy(E) == SignInJustRejected /\ L[Len(L)].res \in {e.id : e \in E}

\* C7: a signIn that rejects because a step of the credential exchange or the profile fetch
\* failed rejects with that failure (which withRetryOn401, once settled, has replaced by
\* its composed error); called on its own, the stored document and the
\* in-memory auth state are what they were at the call and no listener was notified;
\* called by withRetryOn401 after its signOut, the process is still SignedOut and no token
\* is stored.
C7_FailedSignInChangesNothing ==
  RejectedBy(ExchangeFailures \cup UserInfoFailures) =>
    /\ (IsCall("call withRetryOn401") /\ Settled(Main)) \/ ret[Main] = Err(ErrorById(L[Len(L)].res))
    /\ Count("signInResolved") < Count("signIn")
    /\ (IsCall("call signIn") =>
          /\ Settled(Main)
          /\ doc = Was.doc
          /\ AuthStateNow = Was.auth
          /\ Count("notify") = 0)
    /\ (IsCall("call withRetryOn401") =>
          /\ AuthStateNow = SignedOutState
          /\ doc.present /\ doc.settings.oauthToken = Absent)

C7_Witness ==
  /\ RejectedBy({FlowAccessDenied})
  /\ IsCall("call signIn")
  /\ ~Was.auth.isSignedIn
  /\ Was.doc.present /\ Was.doc.settings.oauthToken = Absent

C7_WitnessProfile ==
  /\ RejectedBy(UserInfoFailures)
  /\ IsCall("call signIn")
  /\ Was.auth.isSignedIn /\ Was.auth.token = "T1"
  /\ L[Last(Idx("exchangeOk"))].tok = "T2"
  /\ authStateListeners # {}

C7_WitnessVerifier ==
  /\ RejectedBy({VerifierMissing})
  /\ IsCall("call signIn")

(* ------------------------------------------------------------------ *)
(* C8                                                                  *)
(* ------------------------------------------------------------------ *)
\* C8: a signIn called while Settings lack the client id or the client secret never
\* starts a credential exchange, changes neither the stored document nor the in-memory
\* auth state, notifies nobody, and settles rejected with the configuration error of the
\* first missing value.
C8_MissingConfigFailsEarly ==
  (IsCall("call signIn") /\ ~HasCredentials(Was.doc)) =>
    /\ Count("exchange") = 0
    /\ Count("notify") = 0
    /\ doc = Was.doc
    /\ AuthStateNow = Was.auth
    /\ verifierSlot = Absent
    /\ (Settled(Main) =>
          ret[Main] = Err(IF Falsy(getSettings.githubClientId)
                            THEN ClientIdMissingError ELSE ClientSecretMissingError))

C8_Witness ==
  /\ IsCall("call signIn")
  /\ Settled(Main)
  /\ Was.doc.present
  /\ Was.doc.settings.githubClientId = "cid"
  /\ Was.doc.settings.githubClientSecret = Absent
  /\ ret[Main] = Err(ClientSecretMissingError)

C8_WitnessNoClientId ==
  /\ IsCall("call signIn")
  /\ Settled(Main)
  /\ Was.auth.isSignedIn
  /\ ret[Main] = Err(ClientIdMissingError)

(* ------------------------------------------------------------------ *)
(* C9                                                                  *)
(* ------------------------------------------------------------------ *)
SignedOutAndCleared(a, d) ==
  a = SignedOutState /\ d.present /\ d.settings.oauthToken = Absent

\* C9: a settled signOut, from any auth state, leaves a stored document without
\* Settings.oauthToken and the in-memory state SignedOut, and has invoked every registered
\* listener, once, with that state; and a signOut called in the state a signOut leaves
\* changes neither the stored document nor the in-memory state.
C9_SignOutClearsAndIsIdempotent ==
  (IsCall("call signOut") /\ Settled(Main)) =>
    /\ ret[Main] = Ok("void")
    /\ SignedOutAndCleared(AuthStateNow, doc)
    /\ \A l \in authStateListeners : heard[l] = <<SignedOutState>>
    /\ Count("notify") = 1
    /\ (SignedOutAndCleared(Was.auth, Was.doc) => doc = Was.doc /\ AuthStateNow = Was.auth)

C9_Witness ==
  /\ IsCall("call signOut")
  /\ Settled(Main)
  /\ Was.auth.isSignedIn /\ Was.auth.token = "T1"
  /\ Was.doc.settings.oauthToken = "T1"
  /\ authStateListeners = ListenerIds

C9_WitnessSecond ==
  /\ IsCall("call signOut")
  /\ Settled(Main)
  /\ SignedOutAndCleared(Was.auth, Was.doc)
  /\ HasCredentials(Was.doc)

(* ------------------------------------------------------------------ *)
(* C10                                                                 *)
(* ------------------------------------------------------------------ *)
\* The functions a frame of ensureAuthenticated has called and is waiting for.
CalledBy(t, fn) ==
  {stack[t][i + 1].fn : i \in {j \in 1..(Len(stack[t]) - 1) : stack[t][j].fn = fn}}
CalledByEnsure == UNION {CalledBy(t, "ensureAuthenticated") : t \in Tasks}
WasSignedOut == ~(Was.auth.isSignedIn /\ ~Falsy(Was.auth.token))

\* C10: ensureAuthenticated calls nothing but signOut, so that no credential exchange and
\* no signIn is ever started by it, whoever called it; and called while the process is
\* SignedOut it rejects with the authentication-required error in its first step, without
\* a token test and without touching the stored document or the in-memory state.
C10_EnsureNeverInteractive ==
  /\ CalledByEnsure \subseteq {"signOut"}
  /\ IsCall("call ensureAuthenticated") =>
       /\ Count("exchange") = 0
       /\ Count("signIn") = 0
       /\ (WasSignedOut =>
             /\ Count("testGitHubToken") = 0
             /\ Count("signOut") = 0
             /\ doc = Was.doc
             /\ AuthStateNow = Was.auth
             /\ \/ At(Main, "ensureAuthenticated", "start") /\ Len(L) = 1
                \/ Settled(Main) /\ ret[Main] = Err(AuthRequiredError) /\ Len(L) = 2)

C10_Witness ==
  /\ IsCall("call ensureAuthenticated")
  /\ WasSignedOut
  /\ Settled(Main)
  /\ HasCredentials(doc)
  /\ doc.settings.oauthToken = "T1"

C10_WitnessSignedIn ==
  /\ IsCall("call ensureAuthenticated")
  /\ ~WasSignedOut
  /\ Settled(Main)
  /\ HasCredentials(doc)
  /\ Count("signOut") = 1
  /\ ret[Main] = Err(AuthRequiredError)

(* ------------------------------------------------------------------ *)
(* C11                                                                 *)
(* ------------------------------------------------------------------ *)
TestReports == {L[i].res : i \in Idx("testResult")}

\* C11: a settled ensureAuthenticated called while SignedIn validated the token it held,
\* once; it returned normally exactly when the validation reported the token valid, and
\* then the auth state and the stored document are what they were at the call and nobody
\* was notified; otherwise (reported invalid, or the validation threw) it rejected with the
\* authentication-required error and the process is SignedOut with no token stored.
C11_EnsureRevalidates ==
  (IsCall("call ensureAuthenticated") /\ ~WasSignedOut /\ Settled(Main)) =>
    /\ Count("testGitHubToken") = 1
    /\ L[First(Idx("testGitHubToken"))].tok = Was.auth.token
    /\ Count("testResult") = 1
    /\ (ret[Main].kind = "ok") <=> (TestReports = {"valid"})
    /\ (TestReports = {"valid"} =>
          /\ AuthStateNow = Was.auth
          /\ doc = Was.doc
          /\ Count("notify") = 0
          /\ Count("signOut") = 0)
    /\ (TestReports # {"valid"} =>
          /\ ret[Main] = Err(AuthRequiredError)
          /\ SignedOutAndCleared(AuthStateNow, doc)
          /\ Count("signOut") = 1
          /\ \A l \in authStateListeners : heard[l] = <<SignedOutState>>)

C11_Witness ==
  /\ IsCall("call ensureAuthenticated")
  /\ ~WasSignedOut
  /\ Settled(Main)
  /\ TestReports = {"invalid"}
  /\ Was.auth.token = "T2"
  /\ authStateListeners # {}

C11_WitnessValid ==
  /\ IsCall("call ensureAuthenticated")
  /\ ~WasSignedOut
  /\ Settled(Main)
  /\ TestReports = {"valid"}
  /\ token = "T1"

(* ------------------------------------------------------------------ *)
(* C12                                                                 *)
(* ------------------------------------------------------------------ *)
StoredToken(d) == IF d.present THEN d.settings.oauthToken ELSE Absent
RestoreSettledFresh ==
  IsCall("call restoreAuthState") /\ Settled(Main) /\ Was.auth = SignedOutState

\* C12: a restoreAuthState called in a process whose in-memory state is SignedOut
\* resolves; when Settings held a token T, the validation reported it valid and the
\* profile fetch succeeded, the in-memory state is SignedIn with T and the account of T,
\* the stored document is untouched (T is still the stored token) and the registered
\* listeners heard that state; when Settings held no token, the state is SignedOut, the
\* stored document is untouched and neither the validation nor the profile fetch was called.
C12_RestoreRebuildsSession ==
  RestoreSettledFresh =>
    /\ ret[Main] = Ok("void")
    /\ authInitialized /\ restorePromise = "null"
    /\ doc = Was.doc
    /\ ((StoredToken(Was.doc) \in Tokens /\ TestReports = {"valid"} /\ Idx("getUserInfoOk") # {}) =>
          /\ AuthStateNow = SignedInState(StoredToken(Was.doc), AccountOf(StoredToken(Was.doc)))
          /\ StoredToken(doc) = token
          /\ L[First(Idx("testGitHubToken"))].tok = StoredToken(Was.doc)
          /\ \A l \in authStateListeners : heard[l] = <<AuthStateNow>>)
    /\ (Falsy(StoredToken(Was.doc)) =>
          /\ AuthStateNow = SignedOutState
          /\ Count("testGitHubToken") = 0
          /\ Count("getUserInfoOk") + Count("getUserInfoFailed") = 0
          /\ Count("notify") = 0)

C12_Witness ==
  /\ RestoreSettledFresh
  /\ StoredToken(Was.doc) = "T2"
  /\ isSignedIn /\ token = "T2" /\ login = "bob"
  /\ ~HasCredentials(doc)
  /\ authStateListeners = ListenerIds

C12_WitnessNoToken ==
  /\ RestoreSettledFresh
  /\ ~Was.doc.present

(* ------------------------------------------------------------------ *)
(* C13                                                                 *)
(* ------------------------------------------------------------------ *)
\* C13: when a restoreAuthState has settled after the validation reported the stored token
\* invalid (or threw), Settings.oauthToken has been cleared from the stored document and
\* the in-memory state is SignedOut.
C13_InvalidTokenCleared ==
  (IsCall("call restoreAuthState") /\ Settled(Main)
     /\ StoredToken(Was.doc) \in Tokens /\ TestReports # {} /\ TestReports # {"valid"}) =>
    /\ AuthStateNow = SignedOutState
    /\ Falsy(StoredToken(doc))

(* ------------------------------------------------------------------ *)
(* C14                                                                 *)
(* ------------------------------------------------------------------ *)
Restoring(t) == log[t] # <<>> /\ log[t][1].ev = "call restoreAuthState"
IssuedInFlight(t) == Restoring(t) /\ log[t][1].res = "in flight"
EventsOf(t, ev) == {i \in 1..Len(log[t]) : log[t][i].ev = ev}
Has(t, fn) == \E i \in 1..Len(stack[t]) : stack[t][i].fn = fn
Attempting == {t \in Tasks : \E i \in 1..Len(stack[t]) :
                               stack[t][i].fn = "restoreAuthState" /\ stack[t][i].pc = "after_attempt"}
\* if (authInitialized && isSignedIn && token) return, seen from the caller that settled
SkippedRestore(t) ==
  Settled(t) /\ Len(log[t]) = 1 /\ authInitialized /\ isSignedIn /\ ~Falsy(token)

\* C14 as amended: at most one restore attempt is in flight, and restorePromise names it
\* exactly while it is; a restoreAuthState issued while an attempt is in flight makes no
\* remote call of its own, and either waits for that attempt and settles, with its
\* outcome, in the step the attempt settles, or returns at once because the process is
\* already initialized and SignedIn with a token; one attempt validates at most once; and
\* when the attempt has settled restorePromise is null again.
C14_RestoreCoalesced ==
  /\ Cardinality(Attempting) <= 1
  /\ Cardinality({t \in Tasks : Has(t, "attemptSilentSignin")}) <= 1
  /\ \A t \in Tasks : (restorePromise = t) <=> (t \in Attempting)
  /\ \A t \in Tasks :
       /\ Restoring(t) => Cardinality(EventsOf(t, "testGitHubToken")) <= 1
       /\ IssuedInFlight(t) =>
            /\ Len(log[t]) = 1
            /\ ~Has(t, "attemptSilentSignin")
            /\ Settled(t) => ret[t] = Ok("void") /\ (restorePromise = "null" \/ SkippedRestore(t))
       /\ At(t, "restoreAuthState", "join_wait") =>
            restorePromise \in Tasks \ {t} /\ IssuedInFlight(t)
       /\ At(t, "restoreAuthState", "joined") =>
            restorePromise = "null" /\ IssuedInFlight(t) /\ authInitialized

\* Two calls were issued while the attempt of "t1" was in flight; it validated once and
\* settled, and the three callers are settling together.
C14_Witness ==
  /\ Settled("t1") /\ Restoring("t1") /\ ~IssuedInFlight("t1")
  /\ Cardinality(EventsOf("t1", "testGitHubToken")) = 1
  /\ \A t \in Tasks \ {"t1"} : IssuedInFlight(t) /\ At(t, "restoreAuthState", "joined")
  /\ isSignedIn /\ token = "T1"
  /\ restorePromise = "null"

\* A later call has started a new attempt after an earlier attempt settled.
C14_WitnessNewAttempt ==
  /\ authInitialized
  /\ restorePromise = "t1"
  /\ Has("t1", "attemptSilentSignin")
  /\ IssuedInFlight("t2")

\* C14 as stated: every restoreAuthState issued while an attempt is in flight shares that
\* attempt and settles when it settles, that is, not while restorePromise still names it.
C14_AllSettleWithTheAttempt ==
  \A t \in Tasks : (IssuedInFlight(t) /\ Settled(t)) => restorePromise = "null"

(* ------------------------------------------------------------------ *)
(* C15                                                                 *)
(* ------------------------------------------------------------------ *)
\* The step in which the storage listener receives the change at the head of the queue.
Delivery == changes # <<>> /\ changes' = Tail(changes)
AttemptStarted == \E t \in ListenerTasks : Idle(t) /\ ~(Idle(t))'

\* C15: whenever the listener receives a change of the stored token made by another
\* instance, then, if the new token is non-empty and differs from the in-memory token, it
\* starts the restore logic, and if the token was cleared while the process is SignedIn,
\* the process is SignedOut after that step and the registered listeners were notified.
C15_ListenerReacts ==
  [][(Delivery /\ Head(changes).by = "other" /\ Head(changes).newToken # Head(changes).oldToken) =>
       /\ (Head(changes).newToken \in Tokens /\ Head(changes).newToken # token) => AttemptStarted
       /\ (Falsy(Head(changes).newToken) /\ isSignedIn) =>
            (AuthStateNow' = SignedOutState /\ heard' = Notified(SignedOutState))]_vars

(* ------------------------------------------------------------------ *)
(* C16                                                                 *)
(* ------------------------------------------------------------------ *)
\* C16: whenever the listener receives a change written by a signIn or a signOut of this
\* process, it starts no attempt, changes nothing of the in-memory auth state and notifies
\* no registered listener.
C16_OwnWritesIgnored ==
  [][(Delivery /\ Head(changes).by \in {"signIn", "signOut"}) =>
       /\ ~AttemptStarted
       /\ memVars' = memVars
       /\ heard' = heard]_vars

(* ------------------------------------------------------------------ *)
(* C17                                                                 *)
(* ------------------------------------------------------------------ *)
\* the StorageData that getStorageData gives for a stored value d
DataOf(d) ==
  IF d.present THEN d
  ELSE [present |-> TRUE, groups |-> <<createDefaultGroup>>, settings |-> DefaultSettings]
FetchedAfterSync ==
  /\ Settled(Main)
  /\ IsCall("call syncToGist")
  /\ Count("call syncFromGist") = 1

\* C17: when syncToGist(token, id) on an existing gist, whatever its files, has resolved
\* and the syncFromGist(token, id) that follows it with no local change in between has
\* resolved too, the document returned and the document in the local store both equal
\* the local StorageData as it was before the sync.
C17_RoundTrip ==
  (FetchedAfterSync /\ ret[Main].kind = "ok") =>
     /\ ret[Main].data = DataOf(Was.doc)
     /\ doc = DataOf(Was.doc)

C17_WitnessSameFile ==
  /\ FetchedAfterSync
  /\ ret[Main] = OkData(DataOf(Was.doc))
  /\ doc = DataOf(Was.doc)
  /\ Len(gists[L[1].res].files) = 2

(* ------------------------------------------------------------------ *)
(* C18                                                                 *)
(* ------------------------------------------------------------------ *)
ValidContent(c) == c.json /\ c.hasGroups /\ c.hasSettings
FetchFailures ==
  {FetchDenied, FetchNotFound, FetchFailed, SyncFetchThrew, GistFileNotFound, JsonSyntaxError,
   InvalidDataFormat}

\* C18: in a syncFromGist call the local document stays as it was at the call until the
\* validated data is stored; the call rejects, with the local document unchanged, whenever
\* the GET is answered with anything but 200 or the gist holds no file with JSON content
\* that has both the groups and the settings key; when it resolves, the local document and
\* the value returned equal the parsed content of a file of the gist, with nothing kept of
\* the previous local groups or settings.
C18_FetchValidatesThenOverwrites ==
  IsCall("call syncFromGist") =>
    LET files == gists[L[1].res].files
    IN /\ Count("stored") = 0 => doc = Was.doc
       /\ Settled(Main) =>
            /\ ret[Main].kind = "ok" <=> Count("stored") = 1
            /\ ret[Main].kind = "err" => ret[Main].err \in FetchFailures
            /\ (\E i \in Idx("fetchResponse") : L[i].res # "200") => ret[Main].kind = "err"
            /\ (\A i \in 1..Len(files) : ~ValidContent(files[i].content)) => ret[Main].kind = "err"
            /\ ret[Main].kind = "ok" =>
                 /\ \E i \in 1..Len(files) :
                      /\ ValidContent(files[i].content)
                      /\ doc = [present |-> TRUE, groups |-> files[i].content.groups,
                                settings |-> files[i].content.settings]
                 /\ ret[Main].data = doc

C18_Witness ==
  /\ IsCall("call syncFromGist")
  /\ Settled(Main)
  /\ ret[Main].kind = "ok"
  /\ Was.doc.present
  /\ doc.groups # Was.doc.groups
  /\ doc.settings # Was.doc.settings
C18_WitnessInvalid ==
  /\ IsCall("call syncFromGist")
  /\ Settled(Main)
  /\ ret[Main] = Err(InvalidDataFormat)
  /\ \E i \in 1..Len(gists[L[1].res].files) : ~gists[L[1].res].files[i].content.hasSettings
C18_WitnessNoFile ==
  /\ IsCall("call syncFromGist")
  /\ Settled(Main)
  /\ ret[Main] = Err(GistFileNotFound)

(* ------------------------------------------------------------------ *)
(* C19                                                                 *)
(* ------------------------------------------------------------------ *)
SyncToGistAlone == IsCall("call syncToGist") /\ Count("call syncFromGist") = 0

\* C19: a syncToGist call with a gist id sends no POST and creates no gist, sends its
\* PATCH to that id and leaves the local document alone; a call without an id sends no
\* PATCH and one POST, creates at most one gist, and when it resolves exactly one gist was
\* created, the stored Settings.gistId is the id the remote assigned, and the groups and
\* every other Settings field are as they were at the call.
C19_UpdateOrCreate ==
  SyncToGistAlone =>
    IF ~Falsy(L[1].res)
      THEN /\ Count("POST") = 0
           /\ Count("created") = 0
           /\ \A i \in Idx("PATCH") : L[i].tok = L[1].res
           /\ doc = Was.doc
           /\ (Settled(Main) /\ ret[Main].kind = "ok") =>
                (Count("PATCH") = 1 /\ L[Len(L)] = Event("patchResponse", L[1].res, "200"))
      ELSE /\ Count("PATCH") = 0
           /\ Count("getResponse") = 0
           /\ Count("POST") <= 1
           /\ Count("created") <= 1
           /\ Settled(Main) => Count("POST") = 1
           /\ (Settled(Main) /\ ret[Main].kind = "err") => (Count("created") = 0 /\ doc = Was.doc)
           /\ (Settled(Main) /\ ret[Main].kind = "ok") =>
                /\ Count("created") = 1
                /\ gists[L[First(Idx("created"))].tok].exists
                /\ doc = [DataOf(Was.doc) EXCEPT !.settings.gistId = L[First(Idx("created"))].tok]

C19_Witness ==
  /\ SyncToGistAlone
  /\ Falsy(L[1].res)
  /\ Settled(Main)
  /\ ret[Main].kind = "ok"
  /\ doc.settings.gistId = "g2"
  /\ Was.doc.settings.oauthToken = "T1"
C19_WitnessUpdate ==
  /\ SyncToGistAlone
  /\ L[1].res = "g1"
  /\ Settled(Main)
  /\ ret[Main].kind = "ok"
  /\ ~gists["g2"].exists

(* ------------------------------------------------------------------ *)
(* C20                                                                 *)
(* ------------------------------------------------------------------ *)
\* C20: in updateGist, an answer to the preliminary GET other than 200 and 404 (401, 403,
\* 500, a fetch that rejects) is followed at once by the PATCH of the same gist under the
\* default file name; after a 404 answer no PATCH is sent and updateGist has rejected with
\* the 404 error naming the gist.
C20_PreliminaryReadBestEffort ==
  \A i \in Idx("getResponse") :
    /\ L[i].res \notin {"200", "404"} =>
         (Len(L) > i /\ L[i + 1] = Event("PATCH", L[i].tok, GIST_FILENAME))
    /\ L[i].res = "404" =>
         /\ Count("PATCH") = 0
         /\ Count("patchResponse") = 0
         /\ ~Has(Main, "updateGist")
         /\ IsCall("call updateGist") =>
              (Settled(Main) /\ ret[Main] = Err(GistNotFound404(L[1].res)))

C20_Witness ==
  /\ IsCall("call updateGist")
  /\ Settled(Main)
  /\ ret[Main].kind = "ok"
  /\ \E i \in Idx("getResponse") : L[i].res = "500"
  /\ \E j \in 1..Len(gists[L[1].res].files) :
       /\ gists[L[1].res].files[j].name = GIST_FILENAME
       /\ gists[L[1].res].files[j].content = JSONstringify(DataOf(Was.doc))
C20_WitnessNotFound ==
  /\ IsCall("call updateGist")
  /\ Settled(Main)
  /\ \E i \in Idx("getResponse") : L[i].res = "404"
C20_WitnessThrows ==
  /\ IsCall("call updateGist")
  /\ \E i \in Idx("getResponse") : L[i].res = "throws"
  /\ Has(Main, "updateGist")

(* ------------------------------------------------------------------ *)
(* The store of groups and tabs                                        *)
(* ------------------------------------------------------------------ *)
\* the call of the store function fn that the page made last, and what it passed
IsStoreCall(fn) == L # <<>> /\ L[1].ev = "call " \o fn
Passed == L[1].args
\* the document read() gave when the call started, and the one it gives now
ReadWas == IF Was.doc.present THEN Was.doc ELSE [getStorageData EXCEPT !.groups = <<createDefaultGroup>>]
GroupsWas == ReadWas.groups
GroupsNow == getStorageData.groups
Resolved == Settled(Main) /\ ret[Main].kind = "ok"
Rejected == Settled(Main) /\ ret[Main].kind = "err"

\* C21: in every reachable state the document that read() returns holds exactly one group
\* whose id is "default".
C21_OneDefaultGroup ==
  Cardinality({i \in 1..Len(GroupsNow) : GroupsNow[i].id = "default"}) = 1

\* the document a call leaves when it runs alone on the document d: e is its call record
AppliedTo(d, e) ==
  CASE e.fn = "saveSettings" ->
         saveStorageData([d EXCEPT !.settings = Spread(d.settings, e.args.settings)])
    [] e.fn = "createGroup" /\ Trim(e.args.name) = "" -> d
    [] e.fn = "moveTabBetweenGroups" /\ e.args.groupId = e.args.toGroupId -> d
    [] OTHER ->
         LET r == StoreResult(e.fn, d, e.args)
         IN IF r.save THEN saveStorageData(r.data) ELSE d
BothSettledFromOneDocument ==
  /\ Idle("t1") /\ Idle("t2")
  /\ log["t1"] # <<>> /\ log["t2"] # <<>>
  /\ before["t1"].doc = before["t2"].doc

\* C22: two mutators started on the same document, the second while the first was in flight,
\* leave the document that results from running one and then the other, in some order.
C22_NoLostUpdate ==
  BothSettledFromOneDocument =>
    LET d == before["t1"].doc
        x == log["t1"][1]
        y == log["t2"][1]
    IN doc \in {AppliedTo(AppliedTo(d, x), y), AppliedTo(AppliedTo(d, y), x)}

\* the group the call names, as a position in the groups read at the call (0: no such group)
Named == findGroupById(GroupsWas, Passed.groupId)
TabIdsIn(tabs) == [k \in 1..Len(tabs) |-> tabs[k].id]
TabSet(tabs) == {tabs[k] : k \in 1..Len(tabs)}
\* p lists every id of tabs once
IsPermutation(p, tabs) ==
  /\ Len(p) = Len(tabs)
  /\ {p[k] : k \in 1..Len(p)} = Ids(tabs)
  /\ \A j, k \in 1..Len(p) : p[j] = p[k] => j = k
OtherGroupsUnchanged(i) ==
  /\ Len(GroupsNow) = Len(GroupsWas)
  /\ \A j \in 1..Len(GroupsWas) : j # i => GroupsNow[j] = GroupsWas[j]

\* C23: for an existing group g and a permutation p of g's tab ids, reorderTabsInGroup(g, p)
\* resolves, after which the ids of g's tabs read in order are p, the tab records of g are
\* the same set as before and every other group is unchanged.
C23_ReorderTabsPermutes ==
  (/\ IsStoreCall("reorderTabsInGroup")
   /\ Settled(Main)
   /\ Named # 0
   /\ IsPermutation(Passed.newOrder, GroupsWas[Named].tabs))
  => /\ Resolved
     /\ OtherGroupsUnchanged(Named)
     /\ GroupsNow[Named].id = Passed.groupId
     /\ GroupsNow[Named].name = GroupsWas[Named].name
     /\ TabIdsIn(GroupsNow[Named].tabs) = Passed.newOrder
     /\ TabSet(GroupsNow[Named].tabs) = TabSet(GroupsWas[Named].tabs)
\* a group of two tabs has been put in the reverse order, next to a group that holds a tab
C23_Witness ==
  /\ IsStoreCall("reorderTabsInGroup")
  /\ Resolved
  /\ Named # 0
  /\ Len(Passed.newOrder) = 2
  /\ IsPermutation(Passed.newOrder, GroupsWas[Named].tabs)
  /\ TabIdsIn(GroupsWas[Named].tabs) # Passed.newOrder
  /\ TabIdsIn(GroupsNow[Named].tabs) = Passed.newOrder
  /\ \E j \in 1..Len(GroupsWas) : j # Named /\ GroupsWas[j].tabs # <<>>

ValidationErrors ==
  {"InvalidTabIds", "MustIncludeAllTabs", "InvalidGroupIds", "MustIncludeAllGroups",
   "CannotDeleteDefault", "EmptyGroupName", "DuplicateGroupName"}
FailedValidation == Rejected /\ ret[Main].err.id \in ValidationErrors
DocumentUnchanged == doc = Was.doc

\* C24: for an existing group g and a sequence p that is not a permutation of g's tab ids,
\* reorderTabsInGroup(g, p) fails with a validation error and the document is unchanged.
C24_ReorderTabsRejects ==
  (/\ IsStoreCall("reorderTabsInGroup")
   /\ Settled(Main)
   /\ Named # 0
   /\ ~IsPermutation(Passed.newOrder, GroupsWas[Named].tabs))
  => FailedValidation /\ DocumentUnchanged

\* C25: reorderGroups(p) resolves only for a permutation p of the existing group ids, and
\* then the stored groups are the same records in the order p; for every other p it fails
\* with a validation error and the stored groups are unchanged.
C25_ReorderGroupsValidates ==
  (IsStoreCall("reorderGroups") /\ Settled(Main))
  => IF IsPermutation(Passed.newOrder, GroupsWas)
       THEN /\ Resolved
            /\ [k \in 1..Len(GroupsNow) |-> GroupsNow[k].id] = Passed.newOrder
            /\ {GroupsNow[k] : k \in 1..Len(GroupsNow)} = {GroupsWas[k] : k \in 1..Len(GroupsWas)}
       ELSE FailedValidation /\ GroupsNow = GroupsWas

OneTabPerUrl(tabs) == \A j, k \in 1..Len(tabs) : tabs[j].url = tabs[k].url => j = k
\* C26: after addTabsToGroup(g, batch) on a group with no two tabs of one url, the group
\* still has at most one tab per url, the tabs it had are kept in place, and adding the
\* same batch again changes no tab.
C26_AddSuppressesDuplicateUrls ==
  (/\ IsStoreCall("addTabsToGroup")
   /\ Settled(Main)
   /\ Named # 0
   /\ OneTabPerUrl(GroupsWas[Named].tabs))
  => /\ Resolved
     /\ OneTabPerUrl(GroupsNow[Named].tabs)
     /\ SubSeq(GroupsNow[Named].tabs, 1, Len(GroupsWas[Named].tabs)) = GroupsWas[Named].tabs
     /\ addTabsToGroup(getStorageData, Passed.groupId, Passed.tabs).data.groups[Named].tabs
          = GroupsNow[Named].tabs

SameGroupMove == IsStoreCall("moveTabBetweenGroups") /\ Passed.groupId = Passed.toGroupId
\* C27: moveTabBetweenGroups(t, A, A) resolves without reading or writing the store: it
\* never waits for the store, never rejects, and the document stays as it was at the call.
C27_SameGroupMoveIsNoOp ==
  SameGroupMove
  => /\ Count("read") = 0
     /\ Count("write") = 0
     /\ DocumentUnchanged
     /\ ~Idle(Main) => Top(Main).pc = "start"
     /\ Idle(Main) => Resolved
\* a tab that A holds was moved from A to A when A's updatedAt was in the past
C27_Witness ==
  /\ SameGroupMove
  /\ Resolved
  /\ Named # 0
  /\ Passed.tabId \in Ids(GroupsWas[Named].tabs)
  /\ GroupsNow[Named].updatedAt < clock
\* the same for a group that does not exist
C27_WitnessNoGroup == SameGroupMove /\ Resolved /\ Named = 0

NotFoundErrors == {"GroupNotFound", "SourceGroupNotFound", "TargetGroupNotFound", "TabNotFound"}
Target == findGroupById(GroupsWas, Passed.toGroupId)
Without(tabs, Drop(_)) == SelectSeq(tabs, LAMBDA t : ~Drop(t))
\* C28: moveTabBetweenGroups(t, A, B) with A # B rejects with a not-found error and leaves
\* the document unchanged when A, B or t in A is missing; otherwise t has left A, t is the
\* last tab of B, B holds no other tab with t's url, the other tabs of A and B keep their
\* order, updatedAt of A and B is the time of the call, and every other group is unchanged.
C28_MoveBetweenGroups ==
  (/\ IsStoreCall("moveTabBetweenGroups")
   /\ Passed.groupId # Passed.toGroupId
   /\ Settled(Main))
  => IF Named = 0 \/ Target = 0 \/ Passed.tabId \notin Ids(GroupsWas[Named].tabs)
       THEN Rejected /\ ret[Main].err.id \in NotFoundErrors /\ DocumentUnchanged
       ELSE LET a == GroupsWas[Named].tabs
                b == GroupsWas[Target].tabs
                t == a[FindIndex(a, LAMBDA x : x.id = Passed.tabId)]
            IN /\ Resolved
               /\ Len(GroupsNow) = Len(GroupsWas)
               /\ GroupsNow[Named].tabs = Without(a, LAMBDA x : x.id = t.id)
               /\ GroupsNow[Target].tabs = Append(Without(b, LAMBDA x : x.url = t.url), t)
               /\ GroupsNow[Named].updatedAt = clock
               /\ GroupsNow[Target].updatedAt = clock
               /\ \A j \in 1..Len(GroupsWas) :
                    j \notin {Named, Target} => GroupsNow[j] = GroupsWas[j]

\* C29: deleteGroup("default") fails with a validation error in every store state and leaves
\* the document unchanged; deleteGroup(id) for another id resolves, after which no group has
\* that id and the other groups are unchanged and in the same order.
C29_DeleteGroup ==
  (IsStoreCall("deleteGroup") /\ Settled(Main))
  => IF Passed.groupId = "default"
       THEN Rejected /\ ret[Main].err = CannotDeleteDefault /\ DocumentUnchanged
       ELSE /\ Resolved
            /\ Passed.groupId \notin Ids(GroupsNow)
            /\ GroupsNow = SelectSeq(GroupsWas, LAMBDA g : g.id # Passed.groupId)
\* the middle one of three groups has been deleted
C29_Witness ==
  /\ IsStoreCall("deleteGroup")
  /\ Resolved
  /\ Len(GroupsWas) = 3
  /\ Named = 2
  /\ Len(GroupsNow) = 2
\* the deletion of the default group has been refused, on a stored document and on none
C29_WitnessDefault ==
  IsStoreCall("deleteGroup") /\ Rejected /\ Passed.groupId = "default" /\ ~Was.doc.present

Folded(name) == ToLowerCase(Trim(name))
NameTaken(name) == \E i \in 1..Len(GroupsWas) : Folded(GroupsWas[i].name) = Folded(name)
\* C30: createGroup(name) fails with a validation error and leaves the document unchanged
\* when name is empty or blank or equals an existing group's name after trimming and case
\* folding; otherwise it appends one group with the trimmed name, no tabs and a new non-empty
\* id after the existing groups, which are unchanged, and returns that group.
C30_CreateGroup ==
  (IsStoreCall("createGroup") /\ Settled(Main))
  => IF Trim(Passed.name) = "" \/ NameTaken(Passed.name)
       THEN /\ Rejected
            /\ ret[Main].err.id \in {"EmptyGroupName", "DuplicateGroupName"}
            /\ DocumentUnchanged
       ELSE /\ Resolved
            /\ GroupsNow = Append(GroupsWas, ret[Main].group)
            /\ ret[Main].group.name = Trim(Passed.name)
            /\ ret[Main].group.tabs = <<>>
            /\ ret[Main].group.id # ""
            /\ ret[Main].group.id \notin Ids(GroupsWas)
\* createGroup(" work ") has been refused in a store that holds the group "Work"
C30_Witness ==
  /\ IsStoreCall("createGroup")
  /\ Rejected
  /\ Passed.name = " work "
  /\ \E i \in 1..Len(GroupsWas) : GroupsWas[i].name = "Work"
\* createGroup(" work ") has added the group "work" after two groups
C30_WitnessCreated ==
  /\ IsStoreCall("createGroup")
  /\ Resolved
  /\ Passed.name = " work "
  /\ Len(GroupsWas) = 2
  /\ GroupsNow[3].name = "work"

(* ------------------------------------------------------------------ *)
(* Initialisation of the store                                         *)
(* ------------------------------------------------------------------ *)
HasDefault(groups) == \E i \in 1..Len(groups) : groups[i].id = "default"
\* C31: initStorage() resolves; after it on a fresh store getGroups() returns exactly one
\* group, with id "default" and no tabs; on a stored document without a default group it
\* inserts one as the first element and keeps the other groups in order; on a document that
\* has one it changes nothing, so a second initStorage() changes nothing.
C31_InitStorageIdempotent ==
  (IsStoreCall("initStorage") /\ Settled(Main))
  => /\ Resolved
     /\ HasDefault(GroupsNow)
     /\ ~Was.doc.present =>
          Len(GroupsNow) = 1 /\ GroupsNow[1].id = "default" /\ GroupsNow[1].tabs = <<>>
     /\ HasDefault(GroupsWas) => DocumentUnchanged
     /\ ~HasDefault(GroupsWas) =>
          /\ GroupsNow[1].id = "default"
          /\ GroupsNow[1].tabs = <<>>
          /\ Tail(GroupsNow) = GroupsWas
     /\ ~initStorage(getStorageData).save
\* a default group has been inserted before the two groups of a document that had none
C31_Witness ==
  /\ IsStoreCall("initStorage")
  /\ Resolved
  /\ Len(GroupsWas) = 2
  /\ ~HasDefault(GroupsWas)
  /\ Len(GroupsNow) = 3
  /\ GroupsNow[1].id = "default"
\* initStorage() has completed on a fresh store
C31_WitnessFresh == IsStoreCall("initStorage") /\ Resolved /\ ~Was.doc.present

\* C32: read() never writes, and once initStorage() has completed on a fresh store the
\* underlying key holds a document that contains the default group.
C32_InitStoragePersists ==
  (IsStoreCall("initStorage") /\ Settled(Main) /\ ~Was.doc.present)
  => doc.present /\ HasDefault(doc.groups)

(* ------------------------------------------------------------------ *)
(* C33                                                                 *)
(* ------------------------------------------------------------------ *)
\* A settled withRetryOn401 call with at least one retry in which every retry was used: as
\* many re-authentications succeeded as maxRetries allows, and the invocation of op after
\* the last of them rejected.
C33_Case ==
  /\ Settled(Main)
  /\ IsCall("call withRetryOn401")
  /\ MaxRetriesOfCall >= 1
  /\ Count("signInResolved") = MaxRetriesOfCall
  /\ OpOutcomes # {}
  /\ L[Last(OpOutcomes)].ev = "opRejected"
  /\ Last(Idx("signInResolved")) < Last(OpOutcomes)

\* C33: the wrapper rejects with the error of that last rejection as it is, whatever the
\* error, does nothing after it (no signOut, no signIn), and the process is SignedIn with
\* the token of the last exchange, which is the persisted Settings.oauthToken.
C33_ExhaustedRetriesPropagate ==
  C33_Case =>
    LET k == Last(OpOutcomes)
        fresh == L[Last(Idx("exchangeOk"))].tok
    IN /\ ret[Main] = Err(ErrorById(L[k].res))
       /\ k = Len(L)
       /\ \A i \in Idx("signOut") \cup Idx("signIn") : i < k
       /\ Count("signOut") = MaxRetriesOfCall
       /\ L[k].tok = fresh
       /\ isSignedIn /\ token = fresh
       /\ doc.present /\ doc.settings.oauthToken = fresh
\* the retried operation has failed with a 401 again, after a sign-in that gave T2
C33_Witness ==
  /\ C33_Case
  /\ Count("opRejected") = 2
  /\ ret[Main] = Err(Op401)
  /\ Was.auth.token = "T1"
  /\ token = "T2"

(* ------------------------------------------------------------------ *)
(* The persisted token and the session in memory                       *)
(* ------------------------------------------------------------------ *)
NoOperationInFlight == \A t \in Tasks : Idle(t)

\* C34: in every state in which no auth or sync operation is in flight, a process whose
\* memory is signed in with token T has T as the persisted settings.oauthToken
C34_PersistedTokenAgrees ==
  (NoOperationInFlight /\ isSignedIn) => getSettings.oauthToken = token


(* ------------------------------------------------------------------ *)
(* What makes withRetryOn401 sign out                                  *)
(* ------------------------------------------------------------------ *)
\* the statuses the remote calls of the call on record were answered with
Answered == {L[i].res : i \in {j \in 1..Len(L) : L[j].ev = "fetchResponse"}}

\* C36: a syncFromGistWithRetry call none of whose requests was answered 401 neither signs
\* out nor starts a credential exchange
C36_SignOutOnlyOn401 ==
  (IsCall("call syncFromGistWithRetry") /\ "401" \notin Answered)
    => Count("signOut") = 0 /\ Count("signIn") = 0


(* ------------------------------------------------------------------ *)
(* Who puts a token into the store                                     *)
(* ------------------------------------------------------------------ *)
PageHandlers == {"call handleCloseAndSaveChange", "call handleSaveGistId"}
\* the record begins with a signOut that has completed
SignOutCompleted == IsCall("call signOut") /\ Count("notify") > 0

\* C35: once signOut has completed, the saveSettings calls of the page that follow it, made
\* with the settings object the page holds, leave the persisted settings.oauthToken absent
C35_TokenStaysAbsent ==
  (SignOutCompleted /\ Settled(Main) /\ \E h \in PageHandlers : Count(h) > 0)
    => getSettings.oauthToken = Absent


(* ------------------------------------------------------------------ *)
(* The verifier of a credential exchange                               *)
(* ------------------------------------------------------------------ *)
\* C37: the verifier a flow sends to the token endpoint is the one that flow generated, and
\* a flow that received a code finds a verifier, other exchanges over the slot or not
C37_VerifierIsOwn ==
  /\ \A t \in Tasks :
       At(t, "authenticateWithGitHub", "token_wait")
         => Top(t).loc.verifier = Top(t).loc.codeVerifier
  /\ \A t \in Tasks : \A i \in 1..Len(log[t]) :
       ~(log[t][i].ev = "exchangeFailed" /\ log[t][i].res = VerifierMissing.id)


(* ------------------------------------------------------------------ *)
(* What an upload carries                                              *)
(* ------------------------------------------------------------------ *)
\* the gist that the syncToGist call on record created
CreatedGist == gists[L[First(Idx("created"))].tok]

\* C38: the file that syncToGist uploads to the gist it creates carries neither the stored
\* oauthToken nor the stored githubClientSecret, whatever they are in the local document
C38_UploadHasNoCredentials ==
  (SyncToGistAlone /\ Count("created") > 0) =>
    \A i \in 1..Len(CreatedGist.files) :
      /\ CreatedGist.files[i].content.settings.oauthToken = Absent
      /\ CreatedGist.files[i].content.settings.githubClientSecret = Absent


(* ------------------------------------------------------------------ *)
(* Coherence of the auth state in memory                               *)
(* ------------------------------------------------------------------ *)
\* C39: in every state, those in the middle of an asynchronous signIn, signOut, restore or
\* retry included, isSignedIn is true exactly when the token is defined and exactly when
\* userInfo is non-null, and login is userInfo.login when signed in and empty otherwise
C39_AuthStateCoherent ==
  /\ isSignedIn <=> token # Undefined
  /\ isSignedIn <=> ~userInfo.null
  /\ login = IF isSignedIn THEN userInfo.login ELSE ""

\* signed in, in the middle of a signIn: the token is in memory and not yet in the store
C39_Witness ==
  /\ IsCall("call signIn")
  /\ At(Main, "saveSettings", "write_wait")
  /\ isSignedIn
  /\ token = "T1"
  /\ getSettings.oauthToken # "T1"
\* signed out in the middle of the retry of withRetryOn401, after having been signed in
C39_WitnessRetry ==
  /\ IsCall("call withRetryOn401")
  /\ At(Main, "withRetryOn401", "gs_wait")
  /\ ~isSignedIn
  /\ WasSignedIn


(* ------------------------------------------------------------------ *)
(* Subscription to the auth state                                      *)
(* ------------------------------------------------------------------ *)
NothingPending == NoOperationInFlight /\ changes = <<>>

C40_SubscribeInvokesAtOnce ==
  [][\A l \in ListenerIds :
       (l \notin authStateListeners /\ l \in authStateListeners') => heard'[l] = <<AuthStateNow>>]_vars

====
